---- MODULE Spec2Model ----
(***************************************************************************)
(* Model of the tjsdoc-plugin-watcher Watcher (src/src/plugin.js, the      *)
(* WatchGroup based variant, lines 686-1512) together with the callbacks   *)
(* that WatchGroup (src/src/WatchGroup.js) registers on chokidar.  The     *)
(* handlers of ManualWatchGroup differ by the section they add to an       *)
(* update, which is not part of the state here.                            *)
(*                                                                         *)
(* Node runs every callback to completion on one thread, so each handler   *)
(* (a chokidar callback, a readline callback, a setImmediate task, an      *)
(* eventbus binding invoked by the host, the Promise.all continuation) is  *)
(* one action.  `out` holds, in order, what the last handler sent to the   *)
(* eventbus, to chokidar (close) and to readline (prompt); `last` names    *)
(* the handler and its input.  Both are history variables.                 *)
(***************************************************************************)
EXTENDS Naturals, Sequences, FiniteSets

VARIABLES
  options,          \* this.options: option name -> boolean
  terminal,         \* this.terminal
  promptVisible,    \* this.promptVisible
  readline,         \* this.readline: "none" (undefined) or "open"; gaze variant: "closed" while lines of a chunk follow rl.close()
  bound,            \* eventProxy holds the bindings added by initialize
  watchers,         \* this.<type>Watcher: "none" (undefined), "watching", "ready"
  promises,         \* promise returned by each group's initialize
  thenQueued,       \* the Promise.all continuation is queued as a microtask
  sigintListeners,  \* number of listeners this Watcher attached to process SIGINT
  immediates,       \* pending setImmediate tasks, in order
  crashed,          \* an uncaught exception ended the process
  hostPhase,        \* what the host does next: "loaded", "watching", "regenerating", "shutdown"
  scheduled,        \* groups scheduled by the last initialize
  readySignalled,   \* groups whose ready callback ran since the last initialize
  started,          \* watcher:started events since the last initialize
  stopped,          \* watcher:stopped events since the last initialize
  record,           \* whether file callbacks are recorded in delivered / updates
  delivered,        \* recorded file callbacks, in delivery order
  updates,          \* recorded watcher:update events, in emission order
  onlyChanges,      \* this._onlyChanges of each group
  added,            \* commands registered through addCommand after construction
  retain,           \* whether listeners keep the option objects they are handed
  held,             \* the option objects kept by listeners and callers
  manualGlobs,      \* this.manualGlobs.sections: the manual sections and their file lists, in key order
  watcherStartCount, \* the pending start counter of the counter-based variants (src/unnamed/part_000)
  watcherCloseFunction, \* gaze variant: watcherCloseFunction is a function (src/src/plugin.js 446)
  manualGlobsAll,   \* this.manualGlobs.all: "undefined" (this.manualGlobs is not set), "empty" or "files"
  config,           \* the include and exclude patterns of the project's TJSDocConfig
  group,            \* a WatchGroup used on its own: its _watcher and chokidar's file index
  result,           \* the last call on the group or on an ignore function, and what it returned
  initialized,      \* watcher:initialized events since the last initialize
  session,          \* recorded: regenerations so far, and whether the host asked this session to stop
  out,              \* what the last handler emitted, in order
  last              \* the last handler and its input

vars == <<options, terminal, promptVisible, readline, bound, watchers, promises,
          thenQueued, sigintListeners, immediates, crashed, hostPhase,
          scheduled, readySignalled, started, stopped, record, delivered, updates,
          onlyChanges, added, retain, held, manualGlobs, manualGlobsAll,
          watcherStartCount, watcherCloseFunction, config, group, result, initialized,
          session, out, last>>

----------------------------------------------------------------------------
(* Bounds of the model. *)

\* SIGINT listeners the Watcher may have attached before another
\* initialization without a terminal is left out.
MaxListeners == 2

\* Pending setImmediate tasks beyond which no further input is taken.
MaxQueue == 2

\* File callbacks recorded per initialization.
MaxCallbacks == 3

\* Option objects the listeners and callers keep; further ones are dropped.
MaxHeld == 2

\* Regular expressions in the include and exclude arrays of a config, all
\* four arrays taken together.
MaxPatterns == 2

\* Regenerations recorded; the host does not regenerate once more.
MaxCycles == 2

\* Paths listed in one manual section.
MaxFiles == 2

----------------------------------------------------------------------------
(* Values *)

Types == {"index", "manual", "source", "test"}

FileActions == {"file:add", "file:change", "file:unlink"}

OptionKeys == {"silent", "trigger", "verbose"}

\* JavaScript values that appear as properties of an argument object.
JSValues == {"true", "false", "'yes'"}

TypeOf(v) == IF v \in {"true", "false"} THEN "boolean" ELSE "string"

ToBool(v) == v = "true"

\* An argument passed by a caller: its kind and, for an object, its own properties.
NoProps == [k \in {} |-> "true"]

Arg(kind, props) == [kind |-> kind, props |-> props]

\* typeof options after the default parameter value (options = {}) was
\* applied: an omitted or undefined argument is {} by then, null stays null.
TypeOfArg(a) ==
  CASE a.kind = "object" -> "object"
    [] a.kind = "null" -> "object"
    [] a.kind = "undefined" -> "object"
    [] OTHER -> a.kind

Ev(name, data) == [name |-> name, data |-> data]

Names(q) == [i \in 1..Len(q) |-> q[i].name]

\* The number of entries of q with the given name.
Count(q, name) == Cardinality({i \in 1..Len(q) : q[i].name = name})

----------------------------------------------------------------------------
(* Helpers of the Watcher: a handler threads a context c = [out, pv] made  *)
(* of what it has emitted so far and of this.promptVisible.                *)

Ctx(o, pv) == [out |-> o, pv |-> pv]

Emit(c, name, data) == Ctx(Append(c.out, Ev(name, data)), c.pv)

\* JSON.stringify / JSON.parse of an object whose values are booleans.
JSONstringify(o) == [k \in DOMAIN o |-> IF o[k] THEN "true" ELSE "false"]

JSONparse(s) == [k \in DOMAIN s |-> s[k] = "true"]

getOptions(opts) == JSONparse(JSONstringify(opts))

\* Mutant: getOptions returns this.options itself.
getOptionsLive(opts) == [ref |-> "live", val |-> opts]

\* The object getOptions returns: JSON.parse builds a new object, which
\* shares nothing with this.options.
getOptionsObject(opts) == [ref |-> "copy", val |-> getOptions(opts)]

\* A listener or caller that was handed the object obj keeps it.
Retain(h, keep, from, obj) ==
  IF keep /\ Len(h) < MaxHeld
    THEN Append(h, [from |-> from, ref |-> obj.ref, val |-> obj.val])
    ELSE h

\* What a holder reads through the object it kept.
Deref(h, opts) == IF h.ref = "live" THEN opts ELSE h.val

\* if (this.promptVisible) { console.log(''); }
newline(c) == IF c.pv THEN Emit(c, "console.log", "") ELSE c

\* Mutant: the message is logged whatever the trigger option is.
logUnlessSilent(opts, c, message) ==
  IF ~opts["silent"]
    THEN Emit(Ctx(newline(c).out, FALSE), "log:info:time", message)
    ELSE c

log(opts, c, message) ==
  IF ~opts["silent"] /\ opts["trigger"]
    THEN Emit(Ctx(newline(c).out, FALSE), "log:info:time", message)
    ELSE c

logVerbose(opts, c, message) ==
  IF opts["verbose"] /\ ~opts["silent"] /\ opts["trigger"]
    THEN Emit(Ctx(newline(c).out, FALSE), "log:info:time", message)
    ELSE c

\* Mutant: the gate is inverted (events are triggered if not trigger).
triggerEventIfNot(opts, c, name, data) ==
  IF ~opts["trigger"] THEN Emit(c, name, data) ELSE c

\* Mutant: the event is triggered whatever the trigger option.
triggerEventAlways(opts, c, name, data) == Emit(c, name, data)

\* Mutant: an event that is forwarded is forwarded twice.
triggerEventTwice(opts, c, name, data) ==
  IF opts["trigger"] THEN Emit(Emit(c, name, data), name, data) ELSE c

triggerEvent(opts, c, name, data) ==
  IF opts["trigger"] THEN Emit(c, name, data) ELSE c

\* showPrompt of the readline terminal.
showPrompt(opts, c) ==
  IF ~opts["silent"] THEN Emit(Ctx(c.out, TRUE), "readline:prompt", "") ELSE c

----------------------------------------------------------------------------
(* Watcher.constructor: the options come from the plugin options. *)

\* No command is registered beyond those of initializeCommands.
NoCommands == [n \in {} |-> [type |-> "plain", exec |-> FALSE]]

\* The fourth argument of the WatchGroup constructor defaults to false and
\* the Watcher never passes it.
DefaultOnlyChanges == [t \in Types |-> FALSE]

\* The options and the terminal setting when the plugin options give none.
DefaultOptions == [silent |-> FALSE, trigger |-> TRUE, verbose |-> FALSE]

DefaultTerminal == TRUE

\* A scope of the TJSDocConfig: config._includes and config._excludes, two
\* arrays of regular expressions.
Scope(inc, exc) == [includes |-> inc, excludes |-> exc]

\* The TJSDocConfig: the main scope and config.test.
Config(main, test) ==
  [includes |-> main.includes, excludes |-> main.excludes, test |-> test]

\* A config without include and exclude patterns.
NoConfig == Config(Scope(<<>>, <<>>), Scope(<<>>, <<>>))

\* A WatchGroup after its constructor: this._watcher is undefined.  `files`
\* is the file index of the chokidar instance this._watcher refers to;
\* `phase` and `atClose` (the index when close was last called) are history.
NewGroup == [watcher |-> "undefined", files |-> {}, phase |-> "new", atClose |-> {}]

\* No call was made yet.
NoResult ==
  [op |-> "none", path |-> "", stats |-> "", scope |-> "", ignored |-> FALSE, watched |-> {}]

\* The first session: the host has regenerated nothing and asked nothing.
NewSession == [regenerations |-> 0, asked |-> FALSE]

\* No manual section: the publisher lists no manual files.
NoSections == <<>>

ConstructedOver(rec, oc, ret, cfgs, globs) ==
  /\ config \in cfgs
  /\ manualGlobs \in globs
  /\ manualGlobsAll = "undefined"
  /\ watcherStartCount = 0
  /\ watcherCloseFunction = FALSE
  /\ session = NewSession
  /\ group = NewGroup
  /\ result = NoResult
  /\ initialized = 0
  /\ options \in [OptionKeys -> BOOLEAN]
  /\ terminal \in BOOLEAN
  /\ promptVisible = FALSE
  /\ readline = "none"
  /\ bound = FALSE
  /\ watchers = [t \in Types |-> "none"]
  /\ promises = [t \in Types |-> "none"]
  /\ thenQueued = FALSE
  /\ sigintListeners = 0
  /\ immediates = <<>>
  /\ crashed = FALSE
  /\ hostPhase = "loaded"
  /\ scheduled = {}
  /\ readySignalled = {}
  /\ started = 0
  /\ stopped = 0
  /\ record = rec
  /\ delivered = <<>>
  /\ updates = <<>>
  /\ onlyChanges = oc
  /\ added = NoCommands
  /\ retain = ret
  /\ held = <<>>
  /\ out = <<>>
  /\ last = [op |-> "constructor", arg |-> Arg("undefined", NoProps), threw |-> FALSE]

ConstructedFor(rec, oc, ret, cfgs) == ConstructedOver(rec, oc, ret, cfgs, {NoSections})

ConstructedWith(rec, oc, ret) == ConstructedFor(rec, oc, ret, {NoConfig})

Constructed(rec) == ConstructedWith(rec, DefaultOnlyChanges, FALSE)

Init == Constructed(FALSE)

\* A callback of the event loop (chokidar, readline, a signal, a setImmediate
\* task) and the host's next onComplete can run: the process is alive and no
\* microtask is queued before it.
CanRun == ~crashed /\ ~thenQueued

\* A binding of the eventbus is called synchronously by whoever triggers the
\* event, in the tick that queued the continuation of Promise.all too: the
\* continuation is a microtask and runs when that tick's code has returned.
CanCall == ~crashed

----------------------------------------------------------------------------
(* Watcher.initialize(config), called by onComplete.  cfg is the set of    *)
(* targets the config provides (index file on disk, manual globs, source   *)
(* globs, test globs).                                                     *)

ScheduleOrder == <<"index", "manual", "source", "test">>

\* The log lines of the groups that are created, in the order of the code.
watchingLogs(opts, c, cfg) ==
  LET step(cc, t) == IF t \in cfg THEN log(opts, cc, <<"watching", t>>) ELSE cc
      c1 == step(c, ScheduleOrder[1])
      c2 == step(c1, ScheduleOrder[2])
      c3 == step(c2, ScheduleOrder[3])
      c4 == step(c3, ScheduleOrder[4])
  IN  c4

\* What the publisher answers to tjsdoc:data:publisher:config:manual:globs:get
\* (undefined when nothing is bound to the event).
PublisherAnswers == {"undefined", "null", "object"}

\* typeof globs === 'object' && globs.all: typeof null is 'object' and
\* reading null.all is a TypeError, raised before anything is bound.
globsThrows(globs) == globs = "null"

\* The entries of the config that hold globs, given the groups that are
\* created: config.index is set whenever the file exists (fs.existsSync) and
\* may name a file that does not; the source globs of the main and of the
\* test scope make a group whenever they are set.
ConfigEntries(cfg) ==
  {n \in SUBSET {"index", "source", "test"} :
     /\ "index" \in cfg => "index" \in n
     /\ \A t \in {"source", "test"} : t \in n <=> t \in cfg}

\* getGlobs(): the names that list globs.  The manual group is created
\* exactly when this.manualGlobs.all has an element.
getGlobs(cfg, entries) == entries \cup (cfg \cap {"manual"})

\* The payloads of tjsdoc:system:watcher:initialized, this.getGlobs(), for
\* the groups created; the event is triggered in the terminal branch alone.
initializedData(cfg) ==
  IF terminal /\ cfg # {}
    THEN {getGlobs(cfg, entries) : entries \in ConfigEntries(cfg)}
    ELSE {{}}

\* if (typeof globs === 'object' && globs.all && globs.sections) { this.manualGlobs = globs; }
\* this.manualGlobs.all after an answer that makes the groups cfg: an answer
\* that is no such object leaves this.manualGlobs as it was, also the one a
\* former session has set.
assignManualGlobs(all, globs, cfg) ==
  IF globs = "object" THEN (IF "manual" \in cfg THEN "files" ELSE "empty") ELSE all

\* if (this.manualGlobs && this.manualGlobs.all.length > 0): the manual
\* group is among the groups cfg exactly when the globs held list a file.
manualCreated(all, globs, cfg) ==
  globs # "object" => ("manual" \in cfg <=> all = "files")

\* The inputs of initialize over the configs cfgs when this.manualGlobs.all
\* is `all`: what the publisher answers and the groups the config and the
\* manual globs make.  A null answer ends initialize before the config is
\* read.
InitializeInputs(cfgs, all) ==
  {in \in PublisherAnswers \X (cfgs \cup {{}}) :
     /\ in[1] = "null" => in[2] = {}
     /\ in[1] # "null" => (in[2] \in cfgs /\ manualCreated(all, in[1], in[2]))}

initialize(globs, cfg) ==
  /\ CanRun
  /\ hostPhase \in {"loaded", "regenerating"}
  /\ \E listed \in initializedData(cfg) :
       IF globsThrows(globs)
         THEN /\ out' = <<>>
              /\ last' = [op |-> "initialize", arg |-> Arg("object", NoProps), threw |-> TRUE]
              /\ UNCHANGED <<promptVisible, bound, watchers, promises, thenQueued,
                             sigintListeners, readline, hostPhase, scheduled, readySignalled,
                             started, stopped, initialized, delivered, updates, session,
                             manualGlobsAll>>
         ELSE /\ (cfg # {} /\ ~terminal) => sigintListeners < MaxListeners
              /\ (record /\ hostPhase = "regenerating") => session.regenerations < MaxCycles
              /\ session' = IF record
                              THEN [regenerations |-> IF hostPhase = "regenerating"
                                                        THEN session.regenerations + 1
                                                        ELSE session.regenerations,
                                    asked |-> FALSE]
                              ELSE session
              /\ LET c0 == Ctx(<<>>, promptVisible)
                     c1 == watchingLogs(options, c0, cfg)
                     c2 == IF cfg # {}
                             THEN (IF terminal
                                     THEN Emit(c1, "tjsdoc:system:watcher:initialized", listed)
                                     ELSE c1)
                             ELSE log(options, c1, <<"nothing to watch">>)
                 IN  /\ out' = c2.out
                     /\ promptVisible' = c2.pv
              /\ manualGlobsAll' = assignManualGlobs(manualGlobsAll, globs, cfg)
              /\ bound' = TRUE
              /\ watchers' = [t \in Types |-> IF t \in cfg THEN "watching" ELSE watchers[t]]
              /\ promises' = [t \in Types |-> IF t \in cfg THEN "pending" ELSE "none"]
              \* Promise.all of an empty array is already fulfilled.
              /\ thenQueued' = (cfg = {})
              /\ sigintListeners' = IF cfg # {} /\ ~terminal THEN sigintListeners + 1 ELSE sigintListeners
              /\ readline' = IF cfg # {} /\ terminal THEN "open" ELSE readline
              /\ hostPhase' = "watching"
              /\ scheduled' = cfg
              /\ readySignalled' = {}
              /\ started' = 0
              /\ stopped' = 0
              /\ initialized' = Count(out', "tjsdoc:system:watcher:initialized")
              /\ delivered' = <<>>
              /\ updates' = <<>>
              /\ last' = [op |-> "initialize", arg |-> Arg("object", NoProps), threw |-> FALSE]
  /\ UNCHANGED <<options, terminal, immediates, crashed, record,
                 manualGlobs, watcherStartCount, watcherCloseFunction, config, group, result, onlyChanges, added, retain, held>>

----------------------------------------------------------------------------
(* WatchGroup.initialize: the callbacks registered on the chokidar watcher *)

\* Mutant: the aggregate is fulfilled as soon as one group is ready.
anyFulfilled(p, sched) == \E t \in sched : p[t] = "fulfilled"

\* Mutant: the aggregate is fulfilled once every promise is settled,
\* fulfilled or rejected.
allSettled(p, sched) == \A t \in sched : p[t] \in {"fulfilled", "rejected"}

\* Promise.all(watcherPromises) is fulfilled when every promise is.
allFulfilled(p, sched) == \A t \in sched : p[t] = "fulfilled"

\* chokidar 'ready': the file handlers are registered and the promise resolved.
ready(t) ==
  /\ CanRun
  /\ watchers[t] = "watching"
  /\ watchers' = [watchers EXCEPT ![t] = "ready"]
  /\ promises' = [promises EXCEPT ![t] = IF @ = "pending" THEN "fulfilled" ELSE @]
  /\ thenQueued' = (promises[t] = "pending" /\ allFulfilled(promises', scheduled))
  /\ readySignalled' = readySignalled \cup {t}
  /\ out' = <<>>
  /\ last' = [op |-> "ready", arg |-> Arg("string", NoProps), threw |-> FALSE]
  /\ UNCHANGED <<options, terminal, promptVisible, readline, bound, sigintListeners,
                 immediates, crashed, hostPhase,  scheduled, started, stopped,
                 record, delivered, updates,
                 session, manualGlobs, watcherStartCount, watcherCloseFunction, manualGlobsAll, config, group, result, initialized, onlyChanges, added, retain, held>>

\* The promise of Promise.all(watcherPromises) is rejected by the first
\* rejection of a group's promise.
rejectedAggregate(p, sched) == \E t \in sched : p[t] = "rejected"

\* Promise.all(watcherPromises).then(...) has no rejection handler and no
\* catch: what happens to the rejection of the promise `then` returns is
\* left to the runtime, which either prints a warning and carries on or
\* raises an uncaught exception that ends the process.
unhandledRejection(rejects) == IF rejects THEN {FALSE, TRUE} ELSE {FALSE}

\* chokidar 'error': rejects the promise (a settled promise stays as it is).
error(t) ==
  /\ CanRun
  /\ watchers[t] # "none"
  /\ promises' = [promises EXCEPT ![t] = IF @ = "pending" THEN "rejected" ELSE @]
  /\ crashed' \in unhandledRejection(~rejectedAggregate(promises, scheduled)
                                       /\ rejectedAggregate(promises', scheduled))
  /\ out' = <<>>
  /\ last' = [op |-> "error", arg |-> Arg("string", NoProps), threw |-> FALSE]
  /\ UNCHANGED <<options, terminal, promptVisible, readline, bound, watchers, thenQueued,
                 sigintListeners, immediates, hostPhase,  scheduled,
                 readySignalled, started, stopped, record, delivered, updates,
                 session, manualGlobs, watcherStartCount, watcherCloseFunction, manualGlobsAll, config, group, result, initialized, onlyChanges, added, retain, held>>

\* Mutant: the payload is built from the results of the groups alone.
watcherStartDataResults(sched) == [t \in sched |-> "watched"]

\* Object.assign({ source: { globs: [], files: {} }, test: ..., index: ...,
\* manual: ... }, ...results): the result of a scheduled group ("watched":
\* its globs and its files) replaces the default entry ("empty").
watcherStartData(sched) == [t \in Types |-> IF t \in sched THEN "watched" ELSE "empty"]

\* The continuation of Promise.all(watcherPromises) in Watcher.initialize.
PromiseAllThen ==
  /\ ~crashed
  /\ thenQueued
  /\ LET c0 == Ctx(<<>>, promptVisible)
         c1 == log(options, c0, <<"type 'help' for options">>)
         data == watcherStartData(scheduled)
         c2 == Emit(c1, "tjsdoc:system:watcher:started", data)
     IN  /\ out' = c2.out
         /\ promptVisible' = c2.pv
         /\ started' = started + Count(c2.out, "tjsdoc:system:watcher:started")
  /\ thenQueued' = FALSE
  /\ last' = [op |-> "then", arg |-> Arg("object", NoProps), threw |-> FALSE]
  /\ UNCHANGED <<options, terminal, readline, bound, watchers, promises, sigintListeners,
                 immediates, crashed, hostPhase,  scheduled, readySignalled,
                 stopped, record, delivered, updates,
                 session, manualGlobs, watcherStartCount, watcherCloseFunction, manualGlobsAll, config, group, result, initialized, onlyChanges, added, retain, held>>

\* Mutant: the three handlers are registered whatever onlyChanges is.
wiredAlways(oc) == FileActions

\* The handlers the 'ready' handler registers: 'change' always, 'add' and
\* 'unlink' if (!this._onlyChanges).
wired(oc) == IF oc THEN {"file:change"} ELSE FileActions

\* The 'change', 'add' and 'unlink' handlers of a ready group.  A callback
\* of chokidar that has no handler runs nothing.  Every group of the Watcher
\* is built with onlyChanges = false.
fileCallback(t, a) ==
  /\ CanRun
  /\ watchers[t] = "ready"
  /\ a \in wired(onlyChanges[t])
  /\ record => Len(delivered) < MaxCallbacks
  /\ LET c0 == Ctx(<<>>, promptVisible)
         c1 == logVerbose(options, c0, <<a, t>>)
         c2 == triggerEvent(options, c1, "tjsdoc:system:watcher:update",
                            [action |-> a, type |-> t, options |-> getOptions(options)])
         ups == SelectSeq(c2.out, LAMBDA e : e.name = "tjsdoc:system:watcher:update")
     IN  /\ out' = c2.out
         /\ promptVisible' = c2.pv
         /\ delivered' = IF record
                           THEN Append(delivered, [action |-> a, type |-> t, trigger |-> options["trigger"]])
                           ELSE delivered
         /\ updates' = IF record
                         THEN updates \o [i \in 1..Len(ups) |-> [action |-> ups[i].data.action, type |-> ups[i].data.type]]
                         ELSE updates
         /\ held' = Retain(held, retain /\ ups # <<>>, "tjsdoc:system:watcher:update",
                           getOptionsObject(options))
  /\ last' = [op |-> "file", arg |-> Arg("string", [k \in {"action", "type"} |-> IF k = "action" THEN a ELSE t]), threw |-> FALSE]
  /\ UNCHANGED <<options, terminal, readline, bound, watchers, promises, thenQueued,
                 sigintListeners, immediates, crashed, hostPhase,  scheduled,
                 readySignalled, started, stopped, record,
                 session, manualGlobs, watcherStartCount, watcherCloseFunction, manualGlobsAll, config, group, result, initialized, onlyChanges, added, retain>>

----------------------------------------------------------------------------
(* Watcher.setOptions(options), bound to tjsdoc:system:watcher:options:set *)

\* Mutant: an assigned option is switched on whatever the value.
assignOptionsOn(opts, props) ==
  [k \in DOMAIN opts |->
     IF k \in DOMAIN props /\ TypeOf(props[k]) = "boolean" THEN TRUE ELSE opts[k]]

\* Mutant: every boolean of the argument is assigned, under a new key too.
assignOptionsAnyKey(opts, props) ==
  [k \in DOMAIN opts \cup {p \in DOMAIN props : TypeOf(props[p]) = "boolean"} |->
     IF k \in DOMAIN props /\ TypeOf(props[k]) = "boolean" THEN ToBool(props[k]) ELSE opts[k]]

\* The assignments of the for-in loop: a key is assigned when the option is
\* a boolean already and the new value is a boolean.
assignOptions(opts, props) ==
  [k \in DOMAIN opts |->
     IF k \in DOMAIN props /\ TypeOf(props[k]) = "boolean" THEN ToBool(props[k]) ELSE opts[k]]

\* Mutant: the flag is set only when an assignment changes a value.
optionsChangedIfDifferent(opts, props) ==
  \E k \in DOMAIN props :
    k \in DOMAIN opts /\ TypeOf(props[k]) = "boolean" /\ ToBool(props[k]) # opts[k]

\* Mutant: the flag is set by every key of the argument.
optionsChangedAnyKey(opts, props) == DOMAIN props # {}

optionsChanged(opts, props) ==
  \E k \in DOMAIN props : k \in DOMAIN opts /\ TypeOf(props[k]) = "boolean"

\* if (typeof options !== 'object') { throw new TypeError(...); }
setOptionsThrows(a) == TypeOfArg(a) # "object"

setOptions(a) ==
  /\ CanCall
  /\ LET props == IF a.kind = "object" THEN a.props ELSE NoProps
         threw == setOptionsThrows(a)
         new == IF threw THEN options ELSE assignOptions(options, props)
     IN  /\ options' = new
         /\ out' = IF ~threw /\ optionsChanged(options, props)
                     THEN <<Ev("tjsdoc:system:watcher:options:changed", getOptions(new))>>
                     ELSE <<>>
         /\ held' = Retain(held, retain /\ ~threw /\ optionsChanged(options, props),
                           "tjsdoc:system:watcher:options:changed", getOptionsObject(new))
         /\ last' = [op |-> "setOptions", arg |-> a, threw |-> threw]
  /\ UNCHANGED <<terminal, promptVisible, readline, bound, watchers, promises, thenQueued,
                 sigintListeners, immediates, crashed, hostPhase,  scheduled,
                 readySignalled, started, stopped, record, delivered, updates,
                 session, manualGlobs, watcherStartCount, watcherCloseFunction, manualGlobsAll, config, group, result, initialized, onlyChanges, added, retain>>

----------------------------------------------------------------------------
(* Watcher.shutdownCallback(options), bound by initialize to               *)
(* tjsdoc:system:watcher:shutdown on the local event proxy.                *)

\* Mutant: the regenerate option of the request is not read.
regenerateFlagIgnored(a) == FALSE

\* typeof options === 'object' && typeof options.regenerate === 'boolean' ?
\*  options.regenerate : false
regenerateFlag(a) ==
  /\ a.kind = "object"
  /\ "regenerate" \in DOMAIN a.props
  /\ TypeOf(a.props["regenerate"]) = "boolean"
  /\ ToBool(a.props["regenerate"])

\* typeof null is 'object': reading null.regenerate throws a TypeError.
shutdownThrows(a) == a.kind = "null"

\* The groups are closed in this order, each one if it is set.
CloseOrder == <<"index", "manual", "test", "source">>

\* Mutant: the test group is not closed.
closeListNoTest(w) == SelectSeq(CloseOrder, LAMBDA t : w[t] # "none" /\ t # "test")

\* Mutant: only the groups that are ready are closed.
closeListReady(w) == SelectSeq(CloseOrder, LAMBDA t : w[t] = "ready")

\* Mutant: the source group is not closed.
closeListNoSource(w) == SelectSeq(CloseOrder, LAMBDA t : w[t] # "none" /\ t # "source")

closeList(w) == SelectSeq(CloseOrder, LAMBDA t : w[t] # "none")

\* Mutant: the bindings of the event proxy are left in place.
eventProxyKept(b) == b

\* this.eventProxy.off()
eventProxyOff(b) == FALSE

\* Emits of shutdownCallback after the readline was closed: the closes, the
\* stopped event and the terminal event.
shutdownEmits(opts, c, closes, regenerate) ==
  LET c1 == Ctx(c.out \o [i \in 1..Len(closes) |-> Ev("chokidar:close", closes[i])], c.pv)
      c2 == Emit(c1, "tjsdoc:system:watcher:stopped", "")
      c3 == logVerbose(opts, c2, <<"watching stopped">>)
  IN  Emit(c3, IF regenerate THEN "tjsdoc:system:regenerate:all:docs" ELSE "tjsdoc:system:shutdown", "")

\* The whole callback; op names the handler it runs in.  The readline 'close'
\* handler runs inside rl.close(): this.readline is still set there (the
\* callback cleared this.readLine), so it schedules a shutdown request.
shutdownCallback(a, op, queue) ==
  IF shutdownThrows(a)
    THEN /\ last' = [op |-> op, arg |-> a, threw |-> TRUE]
         /\ out' = <<>>
         /\ immediates' = queue
         /\ UNCHANGED <<promptVisible, readline, bound, watchers, stopped, hostPhase>>
    ELSE LET regenerate == regenerateFlag(a)
             c0 == newline(Ctx(<<>>, promptVisible))
             c1 == logVerbose(options, c0, <<"shutdown requested", regenerate>>)
             c2 == Ctx(c1.out, FALSE)
             c3 == IF readline = "open" THEN Emit(c2, "readline:close", "") ELSE c2
             c4 == shutdownEmits(options, c3, closeList(watchers), regenerate)
         IN  /\ out' = c4.out
             /\ promptVisible' = c4.pv
             /\ readline' = "none"
             /\ immediates' = IF readline = "open" THEN Append(queue, "shutdown") ELSE queue
             /\ bound' = eventProxyOff(bound)
             /\ watchers' = [t \in Types |-> "none"]
             /\ stopped' = stopped + Count(c4.out, "tjsdoc:system:watcher:stopped")
             /\ hostPhase' = IF regenerate THEN "regenerating" ELSE "shutdown"
             /\ last' = [op |-> op, arg |-> a, threw |-> FALSE]

\* eventbus.trigger('tjsdoc:system:watcher:shutdown', a): the callback runs
\* if the binding is there, otherwise nothing happens.
triggerShutdown(a, op, queue) ==
  IF bound
    THEN shutdownCallback(a, op, queue)
    ELSE /\ last' = [op |-> op, arg |-> a, threw |-> FALSE]
         /\ out' = <<>>
         /\ immediates' = queue
         /\ UNCHANGED <<promptVisible, readline, bound, watchers, stopped, hostPhase>>

\* What a host or another plugin may send with a shutdown request.
ShutdownArgs ==
  {Arg("undefined", NoProps), Arg("null", NoProps), Arg("object", NoProps)}
    \cup {Arg("object", [k \in {"regenerate"} |-> v]) : v \in JSValues}

\* A shutdown request triggered on the eventbus by the host or a plugin.
hostShutdown(a) ==
  /\ CanCall
  /\ Len(immediates) < MaxQueue
  /\ triggerShutdown(a, "shutdown", immediates)
  /\ session' = IF record THEN [session EXCEPT !.asked = TRUE] ELSE session
  /\ UNCHANGED <<options, terminal, promises, thenQueued, sigintListeners, crashed, 
                 scheduled, readySignalled, started, record, delivered, updates,
                 manualGlobs, watcherStartCount, watcherCloseFunction, manualGlobsAll, config, group, result, initialized, onlyChanges, added, retain, held>>

\* The events Watcher.log and Watcher.logVerbose are bound to by initialize.
TerminalLogs == {"tjsdoc:system:watcher:terminal:log", "tjsdoc:system:watcher:terminal:log:verbose"}

\* A host or a plugin triggers one of them with a message: the bound function
\* runs, and nothing runs once eventProxy.off() has removed the bindings.
terminalLog(name) ==
  /\ CanCall
  /\ LET c0 == Ctx(<<>>, promptVisible)
         c1 == IF ~bound THEN c0
               ELSE IF name = "tjsdoc:system:watcher:terminal:log"
                      THEN log(options, c0, <<"message">>)
                      ELSE logVerbose(options, c0, <<"message">>)
     IN  /\ out' = c1.out
         /\ promptVisible' = c1.pv
  /\ last' = [op |-> name, arg |-> Arg("string", NoProps), threw |-> FALSE]
  /\ UNCHANGED <<options, terminal, readline, bound, watchers, promises, thenQueued,
                 sigintListeners, immediates, crashed, hostPhase, scheduled, readySignalled,
                 started, stopped, record, delivered, updates, session, manualGlobs,
                 watcherStartCount, watcherCloseFunction, manualGlobsAll, config, group, result, initialized,
                 onlyChanges, added, retain, held>>

----------------------------------------------------------------------------
(* The readline terminal set up by Watcher.initialize and the commands of  *)
(* Watcher.initializeCommands.  A line is given as line.trim().split(' '). *)

CommandNames ==
  <<"exit", "globs", "help", "regen", "silent", "status", "trigger", "verbose", "watching">>

OptionalCommands == {"silent", "trigger", "verbose"}

PlainCommands == {"exit", "globs", "help", "regen", "status", "watching"}

Lines ==
  {<<n>> : n \in PlainCommands \cup OptionalCommands \cup {"", "bogus"}}
    \cup {<<n, x>> : n \in OptionalCommands, x \in {"on", "off", "maybe"}}

\* The names a caller registers a command under, besides the built-in ones.
AddedNames == {"custom", "extra"}

\* Object.keys(this.options) and Object.keys(this.commands), sorted.
SortedOptionKeys == <<"extra", "silent", "trigger", "verbose">>

SortedCommandNames ==
  <<"custom", "exit", "extra", "globs", "help", "regen", "silent", "status", "trigger",
    "verbose", "watching">>

\* this.commands[name]: its type, and whether the caller supplied an exec
\* ("none" if there is no such command).
command(cmds, name) ==
  IF name \in DOMAIN cmds THEN cmds[name]
  ELSE IF name \in OptionalCommands THEN [type |-> "optional", exec |-> FALSE]
  ELSE IF name \in PlainCommands THEN [type |-> "plain", exec |-> TRUE]
  ELSE [type |-> "none", exec |-> FALSE]

EmitAll(c, names, datas) ==
  Ctx(c.out \o [i \in 1..Len(datas) |-> Ev(names, datas[i])], c.pv)

\* exec of an `optional` command (Watcher.addCommand): the new options and
\* whether it throws.
optionalThrows(tokens) == ~(Len(tokens) >= 2 /\ tokens[2] \in {"on", "off"})

\* Mutant: any token but `on` switches the option off.
optionalAssignLoose(opts, tokens) ==
  [opts EXCEPT ![tokens[1]] = (Len(tokens) >= 2 /\ tokens[2] = "on")]

optionalAssign(opts, tokens) ==
  IF optionalThrows(tokens) THEN opts ELSE [opts EXCEPT ![tokens[1]] = (tokens[2] = "on")]

\* Mutant: the hook is given the negation of the new state.
origExecNegated(c, hook, value) == IF hook THEN Emit(c, "origExec", ~value) ELSE c

\* if (typeof origExec === 'function') { origExec(value); }
origExec(c, hook, value) == IF hook THEN Emit(c, "origExec", value) ELSE c

optionalExec(opts, c, tokens, hook) ==
  LET new == optionalAssign(opts, tokens)
      c1 == Emit(c, "tjsdoc:system:watcher:options:changed", getOptions(new))
  IN  showPrompt(new, origExec(c1, hook, new[tokens[1]]))

\* exec of a plain command supplied by a caller: it is handed the options
\* and showPrompt, and calls showPrompt or not.
callerExec(opts, c, prompts) ==
  LET c1 == Emit(c, "exec", getOptions(opts))
  IN  IF prompts THEN showPrompt(opts, c1) ELSE c1

callerPrompts(cmd) ==
  IF cmd.type = "plain" /\ cmd.exec THEN BOOLEAN ELSE {TRUE}

\* exec of the plain commands that log and show the prompt.
plainExec(opts, c, name) ==
  CASE name = "globs" ->
         showPrompt(opts, EmitAll(c, "log:info:raw",
           SelectSeq(<<"source", "test">>, LAMBDA t : t \in scheduled)))
    [] name = "help" ->
         showPrompt(opts, EmitAll(Emit(c, "log:info:raw", "options:"), "log:info:raw",
           SelectSeq(SortedCommandNames, LAMBDA n : command(added, n).type # "none")))
    [] name = "status" ->
         showPrompt(opts, Emit(EmitAll(Emit(c, "log:info:raw", "status:"), "log:info:raw",
           [i \in 1..Cardinality(DOMAIN opts) |->
              LET k == SelectSeq(SortedOptionKeys, LAMBDA x : x \in DOMAIN opts)[i]
              IN  <<k, opts[k]>>]),
           "log:info:raw", ""))
    [] name = "watching" ->
         showPrompt(opts, EmitAll(c, "log:info:raw",
           SelectSeq(ScheduleOrder, LAMBDA t : watchers[t] # "none")))
    [] OTHER -> c

\* The 'line' handler.
line(tokens) ==
  /\ CanRun
  /\ readline = "open"
  /\ tokens[1] \in {"exit", "regen"} => Len(immediates) < MaxQueue
  /\ \E prompts \in callerPrompts(command(added, tokens[1])) :
       LET c0 == Ctx(<<>>, FALSE)
           name == tokens[1]
           cmd == command(added, name)
           threw == cmd.type = "optional" /\ optionalThrows(tokens)
           caller == name \in DOMAIN added /\ cmd.type = "plain" /\ cmd.exec
           c1 == IF cmd.type = "optional"
                   THEN (IF threw
                           THEN showPrompt(options, Emit(c0, "log:info:raw", "command malformed"))
                           ELSE optionalExec(options, c0, tokens, cmd.exec))
                   ELSE IF caller
                          THEN callerExec(options, c0, prompts)
                          ELSE IF cmd.type = "plain" /\ cmd.exec
                                 THEN plainExec(options, c0, name)
                                 ELSE IF name # ""
                                        THEN showPrompt(options, Emit(c0, "log:info:raw", "unknown command"))
                                        ELSE showPrompt(options, c0)
           new == IF cmd.type = "optional" THEN optionalAssign(options, tokens) ELSE options
       IN  /\ out' = c1.out
           /\ promptVisible' = c1.pv
           /\ options' = new
           /\ held' = IF cmd.type = "optional"
                        THEN Retain(held, retain /\ ~threw, "tjsdoc:system:watcher:options:changed",
                                    getOptionsObject(new))
                        ELSE Retain(held, retain /\ caller, "exec", getOptionsObject(options))
           /\ immediates' = CASE name = "exit" /\ ~caller -> Append(immediates, "rlclose")
                              [] name = "regen" /\ ~caller -> Append(immediates, "regen")
                              [] OTHER -> immediates
           /\ last' = [op |-> "line", arg |-> Arg("string", [i \in {"0", "1"} |->
                          IF i = "0" THEN tokens[1] ELSE IF Len(tokens) >= 2 THEN tokens[2] ELSE ""]),
                       threw |-> threw]
  /\ UNCHANGED <<terminal, readline, bound, watchers, promises, thenQueued, sigintListeners,
                 crashed, hostPhase,  scheduled, readySignalled, started, stopped,
                 record, delivered, updates, session, manualGlobs, watcherStartCount, watcherCloseFunction, manualGlobsAll, config, group, result, initialized, onlyChanges, added, retain>>

\* Watcher.addCommand(command), bound to tjsdoc:system:watcher:command:add.
\* A command is given by its name, its type, whether it has an exec function
\* and its state.
addCommandThrows(cmd) == cmd.type # "optional" /\ ~cmd.exec

addCommand(cmd) ==
  /\ CanCall
  /\ LET threw == addCommandThrows(cmd)
     IN  /\ options' = IF cmd.type = "optional" /\ cmd.name \notin DOMAIN options
                         THEN [k \in DOMAIN options \cup {cmd.name} |->
                                 IF k = cmd.name THEN cmd.state = "true" ELSE options[k]]
                         ELSE options
         /\ added' = IF threw
                       THEN added
                       ELSE [n \in DOMAIN added \cup {cmd.name} |->
                               IF n = cmd.name THEN [type |-> cmd.type, exec |-> cmd.exec]
                                               ELSE added[n]]
         /\ last' = [op |-> "addCommand",
                     arg |-> Arg("object", [k \in {"name", "type", "state"} |->
                                CASE k = "name" -> cmd.name [] k = "type" -> cmd.type [] OTHER -> cmd.state]),
                     threw |-> threw]
  /\ out' = <<>>
  /\ UNCHANGED <<terminal, promptVisible, readline, bound, watchers, promises, thenQueued,
                 sigintListeners, immediates, crashed, hostPhase, scheduled, readySignalled,
                 started, stopped, record, delivered, updates, session, manualGlobs, watcherStartCount, watcherCloseFunction, manualGlobsAll, config, group, result, initialized, onlyChanges, retain, held>>

\* What a caller may register: an optional command under a new name or under
\* the name of a built-in one, with or without an exec of its own, and a
\* plain command, which needs an exec.
AddableCommands ==
  {[name |-> "extra", type |-> "optional", exec |-> e, state |-> st] :
      e \in BOOLEAN, st \in {"true", "false", "undefined"}}
    \cup {[name |-> "verbose", type |-> "optional", exec |-> TRUE, state |-> "undefined"]}
    \cup {[name |-> "custom", type |-> "plain", exec |-> e, state |-> "undefined"] : e \in BOOLEAN}

\* getOptions(), bound to tjsdoc:system:watcher:options:get: the caller keeps
\* the object it is returned.
getOptionsCall ==
  /\ CanCall
  /\ retain
  /\ Len(held) < MaxHeld
  /\ held' = Retain(held, TRUE, "getOptions", getOptionsObject(options))
  /\ out' = <<>>
  /\ last' = [op |-> "getOptions", arg |-> Arg("undefined", NoProps), threw |-> FALSE]
  /\ UNCHANGED <<options, terminal, promptVisible, readline, bound, watchers, promises,
                 thenQueued, sigintListeners, immediates, crashed, hostPhase, scheduled,
                 readySignalled, started, stopped, record, delivered, updates,
                 session, manualGlobs, watcherStartCount, watcherCloseFunction, manualGlobsAll, config, group, result, initialized, onlyChanges, added, retain>>

\* A holder writes a property of the object it kept: the write reaches
\* this.options if that object is this.options, and the kept copy otherwise.
mutate(i, k) ==
  /\ CanCall
  /\ i \in 1..Len(held)
  /\ k \in DOMAIN held[i].val
  /\ IF held[i].ref = "live"
       THEN /\ options' = [options EXCEPT ![k] = ~@]
            /\ held' = held
       ELSE /\ options' = options
            /\ held' = [held EXCEPT ![i].val[k] = ~@]
  /\ out' = <<>>
  /\ last' = [op |-> "mutate", arg |-> Arg("object", NoProps), threw |-> FALSE]
  /\ UNCHANGED <<terminal, promptVisible, readline, bound, watchers, promises,
                 thenQueued, sigintListeners, immediates, crashed, hostPhase, scheduled,
                 readySignalled, started, stopped, record, delivered, updates,
                 session, manualGlobs, watcherStartCount, watcherCloseFunction, manualGlobsAll, config, group, result, initialized, onlyChanges, added, retain>>

\* The readline 'close' handler: if this.readline is set, clear it and
\* schedule a shutdown request.
readlineClose(queue) == Append(queue, "shutdown")

RECURSIVE Repeat(_, _)
Repeat(q, n) == IF n = 0 THEN <<>> ELSE q \o Repeat(q, n - 1)

\* Watcher.processInterruptCallback, once per attached listener.
processInterruptCallback(c) ==
  Emit(newline(c), "log:warn:time", "received SIGINT; shutting down")

\* An interrupt: readline catches Ctrl-C / Ctrl-D and emits 'close' when the
\* terminal is enabled, otherwise the process delivers SIGINT to its listeners.
interrupt ==
  /\ CanRun
  /\ Len(immediates) < MaxQueue
  /\ \/ /\ readline = "open"
        /\ readline' = "none"
        /\ immediates' = readlineClose(immediates)
        /\ out' = <<>>
     \/ /\ readline = "none"
        /\ sigintListeners > 0
        /\ readline' = readline
        /\ immediates' = immediates \o Repeat(<<"shutdown">>, sigintListeners)
        /\ out' = Repeat(processInterruptCallback(Ctx(<<>>, promptVisible)).out, sigintListeners)
  /\ last' = [op |-> "interrupt", arg |-> Arg("undefined", NoProps), threw |-> FALSE]
  /\ UNCHANGED <<options, terminal, promptVisible, bound, watchers, promises, thenQueued,
                 sigintListeners, crashed, hostPhase,  scheduled, readySignalled,
                 started, stopped, record, delivered, updates,
                 session, manualGlobs, watcherStartCount, watcherCloseFunction, manualGlobsAll, config, group, result, initialized, onlyChanges, added, retain, held>>

\* The next setImmediate task runs.
runImmediate ==
  /\ CanRun
  /\ immediates # <<>>
  /\ LET task == Head(immediates)
         rest == Tail(immediates)
     IN  CASE task = "rlclose" ->
                \* exit: this.readline.close(); a TypeError if this.readline is undefined
                /\ crashed' = (readline = "none")
                /\ readline' = "none"
                /\ immediates' = IF readline = "open" THEN readlineClose(rest) ELSE rest
                /\ out' = IF readline = "open" THEN <<Ev("readline:close", "")>> ELSE <<>>
                /\ last' = [op |-> "immediate:exit", arg |-> Arg("undefined", NoProps),
                            threw |-> (readline = "none")]
                /\ UNCHANGED <<promptVisible, bound, watchers, stopped, hostPhase>>
           [] task = "shutdown" ->
                /\ triggerShutdown(Arg("undefined", NoProps), "shutdown", rest)
                /\ UNCHANGED crashed
           [] task = "regen" ->
                /\ triggerShutdown(Arg("object", [k \in {"regenerate"} |-> "true"]), "shutdown", rest)
                /\ UNCHANGED crashed
  /\ UNCHANGED <<options, terminal, promises, thenQueued, sigintListeners, 
                 scheduled, readySignalled, started, record, delivered, updates,
                 session, manualGlobs, watcherStartCount, watcherCloseFunction, manualGlobsAll, config, group, result, initialized, onlyChanges, added, retain, held>>

----------------------------------------------------------------------------
(* A WatchGroup (or ManualWatchGroup) driven by a caller of its methods.   *)
(* The index of watched files that chokidar keeps is a set of paths; {} is *)
(* the empty index.                                                        *)

Paths == {"src/a.js", "src/b.js", "test/a.js"}

\* Mutant: getWatched returns the index as it was when the group was closed.
getWatchedSnapshot(g) == IF g.watcher = "chokidar" THEN g.files ELSE g.atClose

\* return this._watcher ? this._watcher.getWatched() : {};
getWatched(g) == IF g.watcher = "chokidar" THEN g.files ELSE {}

\* this._watcher.close() with this._watcher undefined is a TypeError.
closeThrows(g) == g.watcher = "undefined"

\* WatchGroup.initialize: this._watcher = chokidar.watch(...), a new
\* instance whose index is empty until chokidar has scanned the globs.
WatchGroup_initialize ==
  /\ CanRun
  /\ group' = [group EXCEPT !.watcher = "chokidar", !.files = {}, !.phase = "initialized"]
  /\ result' = [NoResult EXCEPT !.op = "initialize"]
  /\ out' = <<>>
  /\ last' = [op |-> "WatchGroup.initialize", arg |-> Arg("object", NoProps), threw |-> FALSE]
  /\ UNCHANGED <<options, terminal, promptVisible, readline, bound, watchers, promises,
                 thenQueued, sigintListeners, immediates, crashed, hostPhase, scheduled,
                 readySignalled, started, stopped, record, delivered, updates,
                 session, manualGlobs, watcherStartCount, watcherCloseFunction, manualGlobsAll, config, initialized, onlyChanges, added, retain, held>>

\* chokidar finds a file of the globs and adds it to the index of the instance.
watched(p) ==
  /\ CanRun
  /\ group.watcher = "chokidar"
  /\ p \notin group.files
  /\ group' = [group EXCEPT !.files = @ \cup {p}]
  /\ result' = [NoResult EXCEPT !.op = "watched", !.path = p]
  /\ out' = <<>>
  /\ last' = [op |-> "watched", arg |-> Arg("string", NoProps), threw |-> FALSE]
  /\ UNCHANGED <<options, terminal, promptVisible, readline, bound, watchers, promises,
                 thenQueued, sigintListeners, immediates, crashed, hostPhase, scheduled,
                 readySignalled, started, stopped, record, delivered, updates,
                 session, manualGlobs, watcherStartCount, watcherCloseFunction, manualGlobsAll, config, initialized, onlyChanges, added, retain, held>>

\* chokidar sees a file deleted and removes it from the index of the instance.
unwatched(p) ==
  /\ CanRun
  /\ group.watcher = "chokidar"
  /\ p \in group.files
  /\ group' = [group EXCEPT !.files = @ \ {p}]
  /\ result' = [NoResult EXCEPT !.op = "unwatched", !.path = p]
  /\ out' = <<>>
  /\ last' = [op |-> "unwatched", arg |-> Arg("string", NoProps), threw |-> FALSE]
  /\ UNCHANGED <<options, terminal, promptVisible, readline, bound, watchers, promises,
                 thenQueued, sigintListeners, immediates, crashed, hostPhase, scheduled,
                 readySignalled, started, stopped, record, delivered, updates,
                 session, manualGlobs, watcherStartCount, watcherCloseFunction, manualGlobsAll, config, initialized, onlyChanges, added, retain, held>>

\* WatchGroup.getWatched()
WatchGroup_getWatched ==
  /\ CanRun
  /\ result' = [NoResult EXCEPT !.op = "getWatched", !.watched = getWatched(group)]
  /\ out' = <<>>
  /\ last' = [op |-> "WatchGroup.getWatched", arg |-> Arg("undefined", NoProps), threw |-> FALSE]
  /\ UNCHANGED <<options, terminal, promptVisible, readline, bound, watchers, promises,
                 thenQueued, sigintListeners, immediates, crashed, hostPhase, scheduled,
                 readySignalled, started, stopped, record, delivered, updates,
                 session, manualGlobs, watcherStartCount, watcherCloseFunction, manualGlobsAll, config, group, initialized, onlyChanges, added, retain, held>>

\* WatchGroup.close(): the TypeError leaves the group as it was and goes to
\* the caller.
WatchGroup_close ==
  /\ CanRun
  /\ IF closeThrows(group)
       THEN /\ out' = <<>>
            /\ UNCHANGED group
       ELSE /\ out' = <<Ev("chokidar:close", "group")>>
            /\ group' = [watcher |-> "undefined", files |-> {}, phase |-> "closed",
                         atClose |-> group.files]
  /\ result' = [NoResult EXCEPT !.op = "close"]
  /\ last' = [op |-> "WatchGroup.close", arg |-> Arg("undefined", NoProps),
              threw |-> closeThrows(group)]
  /\ UNCHANGED <<options, terminal, promptVisible, readline, bound, watchers, promises,
                 thenQueued, sigintListeners, immediates, crashed, hostPhase, scheduled,
                 readySignalled, started, stopped, record, delivered, updates,
                 session, manualGlobs, watcherStartCount, watcherCloseFunction, manualGlobsAll, config, initialized, onlyChanges, added, retain, held>>

----------------------------------------------------------------------------
(* ManualWatchGroup: the group of the manual files.  A path is the         *)
(* sequence of its segments ("./manual/a.md" is <<".", "manual", "a.md">>);*)
(* this.manualGlobs.sections is the sequence of its entries in key order,  *)
(* each with the section name and its value (an array of paths or not).    *)

SectionNames == {"overview", "usage"}

\* Paths as a project writes them in a section, relative to the project;
\* "manual/" names the directory, "__proto__" a file at its top.
RawPaths ==
  {<<".", "manual", "a.md">>, <<"manual", "a.md">>, <<"manual", "", "b.md">>, <<"manual", "">>,
   <<"__proto__">>}

\* The properties every object inherits from Object.prototype and what a
\* read of them yields: functions and, for __proto__, the prototype object;
\* none of them is a string and all are truthy.
ObjectPrototype ==
  {"constructor", "hasOwnProperty", "isPrototypeOf", "propertyIsEnumerable",
   "toLocaleString", "toString", "valueOf", "__defineGetter__", "__defineSetter__",
   "__lookupGetter__", "__lookupSetter__", "__proto__"}

Inherited(name) == <<IF name = "__proto__" THEN "object" ELSE "function", name>>

\* Paths as chokidar hands them to the callbacks: without a leading "./".
\* A file at the top of the project may have any name.
CallbackPaths ==
  {<<"manual", "a.md">>, <<"manual", "b.md">>, <<"manual", "c.md">>, <<"constructor">>,
   <<"__proto__">>}

\* nodePath.normalize (POSIX) on the path whose segments up to i - 1 gave
\* acc: "." and empty segments are dropped, ".." removes the segment before
\* it, is kept at the front of a relative path and dropped at the root of
\* an absolute one; the leading separator of an absolute path and a
\* trailing separator are kept; an empty result is ".", "./" or "/".
RECURSIVE normalizeSegments(_, _, _)
normalizeSegments(path, i, acc) ==
  LET isAbsolute == Len(path) >= 2 /\ path[1] = ""
      trailingSeparator == Len(path) >= 2 /\ path[Len(path)] = ""
  IN  IF i > Len(path)
        THEN IF acc = <<>>
               THEN (IF isAbsolute THEN <<"", "">>
                     ELSE IF trailingSeparator THEN <<".", "">> ELSE <<".">>)
               ELSE (IF isAbsolute THEN <<"">> ELSE <<>>) \o acc
                      \o (IF trailingSeparator THEN <<"">> ELSE <<>>)
      ELSE IF path[i] \in {".", ""} THEN normalizeSegments(path, i + 1, acc)
      ELSE IF path[i] = ".."
        THEN IF acc # <<>> /\ acc[Len(acc)] # ".."
               THEN normalizeSegments(path, i + 1, SubSeq(acc, 1, Len(acc) - 1))
             ELSE IF isAbsolute THEN normalizeSegments(path, i + 1, acc)
             ELSE normalizeSegments(path, i + 1, Append(acc, ".."))
      ELSE normalizeSegments(path, i + 1, Append(acc, path[i]))

normalize(path) == normalizeSegments(path, 1, <<>>)

\* for (const path of manualGlobs.sections[key]) { previous[nodePath.normalize(path)] = key; }
\* previous is a plain object: the assignment of a string to its __proto__
\* is ignored and adds no property; every other name becomes a property of
\* its own, those of the functions of Object.prototype included.
RECURSIVE lookupFiles(_, _, _)
lookupFiles(previous, key, files) ==
  IF files = <<>> THEN previous
  ELSE LET p == normalize(Head(files))
           next == IF p = <<"__proto__">>
                     THEN previous
                     ELSE [q \in DOMAIN previous \cup {p} |-> IF q = p THEN key ELSE previous[q]]
       IN  lookupFiles(next, key, Tail(files))

\* Object.keys(manualGlobs.sections).reduce(..., {}): entries whose value is
\* not an array add nothing.
RECURSIVE reverseLookup(_, _)
reverseLookup(sections, previous) ==
  IF sections = <<>> THEN previous
  ELSE reverseLookup(Tail(sections),
                     IF Head(sections).isArray
                       THEN lookupFiles(previous, Head(sections).key, Head(sections).files)
                       ELSE previous)

\* this._reverseLookup after the constructor.
ManualWatchGroup_reverseLookup(sections) ==
  reverseLookup(sections, [q \in {} |-> ""])

\* const section = this._reverseLookup[path] || 'unknown'; the lookup is a
\* plain object, so a path that is no key of its own and names a property
\* of Object.prototype reads that property, which is truthy.  The section
\* is <<"string", name>> or what was inherited.
sectionOf(lookup, path) ==
  IF path \in DOMAIN lookup
    THEN (IF lookup[path] # "" THEN <<"string", lookup[path]>> ELSE <<"string", "unknown">>)
  ELSE IF Len(path) = 1 /\ path[1] \in ObjectPrototype THEN Inherited(path[1])
  ELSE <<"string", "unknown">>

\* The 'change', 'add' and 'unlink' handlers of the ready manual group.
manualCallback(a, path) ==
  /\ CanRun
  /\ watchers["manual"] = "ready"
  /\ a \in wired(onlyChanges["manual"])
  /\ record => Len(delivered) < MaxCallbacks
  /\ LET c0 == Ctx(<<>>, promptVisible)
         c1 == logVerbose(options, c0, <<a, "manual">>)
         section == sectionOf(ManualWatchGroup_reverseLookup(manualGlobs), path)
         c2 == triggerEvent(options, c1, "tjsdoc:system:watcher:update",
                            [action |-> a, type |-> "manual", path |-> path,
                             section |-> section, options |-> getOptions(options)])
         ups == SelectSeq(c2.out, LAMBDA e : e.name = "tjsdoc:system:watcher:update")
     IN  /\ out' = c2.out
         /\ promptVisible' = c2.pv
         /\ delivered' = IF record
                           THEN Append(delivered, [action |-> a, type |-> "manual", trigger |-> options["trigger"]])
                           ELSE delivered
         /\ updates' = IF record
                         THEN updates \o [i \in 1..Len(ups) |-> [action |-> ups[i].data.action, type |-> ups[i].data.type]]
                         ELSE updates
         /\ held' = Retain(held, retain /\ ups # <<>>, "tjsdoc:system:watcher:update",
                           getOptionsObject(options))
  /\ result' = [NoResult EXCEPT !.op = "manual", !.path = path]
  /\ last' = [op |-> "manual", arg |-> Arg("string", [k \in {"action", "type"} |-> IF k = "action" THEN a ELSE "manual"]), threw |-> FALSE]
  /\ UNCHANGED <<options, terminal, readline, bound, watchers, promises, thenQueued,
                 sigintListeners, immediates, crashed, hostPhase,  scheduled,
                 readySignalled, started, stopped, record,
                 session, manualGlobs, watcherStartCount, watcherCloseFunction, manualGlobsAll, config, group, initialized, onlyChanges, added, retain>>

\* The values a section can have: an array of at most MaxFiles paths, or
\* something that is not an array.
RECURSIVE FileLists(_)
FileLists(k) ==
  IF k = 0 THEN {<<>>}
  ELSE FileLists(k - 1) \cup {Append(l, p) : l \in {m \in FileLists(k - 1) : Len(m) = k - 1}, p \in RawPaths}

SectionValues(key) ==
  {[key |-> key, isArray |-> TRUE, files |-> l] : l \in FileLists(MaxFiles)}
    \cup {[key |-> key, isArray |-> FALSE, files |-> <<>>]}

\* The section objects over SectionNames, with their keys in any order.
ManualSections ==
  {NoSections}
    \cup {<<v>> : v \in UNION {SectionValues(k) : k \in SectionNames}}
    \cup {<<v, w>> : v \in SectionValues("overview"), w \in SectionValues("usage")}
    \cup {<<w, v>> : v \in SectionValues("overview"), w \in SectionValues("usage")}

----------------------------------------------------------------------------
(* The counter-based Watcher of src/unnamed/part_000: initialize counts    *)
(* the chokidar watchers it creates and each 'ready' handler counts down.  *)
(* this.silent, this.verbose and this.paused of that variant are the       *)
(* options silent, verbose and the negation of trigger.  The steps of      *)
(* initialize that emit nothing are entered in `out` where they happen:    *)
(* "watcherStartCount++" and "chokidar:watch", each with its group.        *)
(* onComplete constructs the Watcher, so the model follows the Watcher of  *)
(* the first onComplete; getGlobs, getOptions and getWatching, which it    *)
(* binds too, only read.                                                   *)

CounterGroups == {"source", "test"}

CounterOrder == <<"source", "test">>

\* if (config._sourceGlobs) { this.log(...); watcherStartCount++;
\*  this.sourceWatcher = chokidar.watch(...); ... } and the same for test.
createWatcher_part000(opts, c, cfg, t) ==
  IF t \in cfg
    THEN LET c1 == log(opts, c, <<"watching", t>>)
             c2 == Emit(c1, "watcherStartCount++", t)
         IN  Emit(c2, "chokidar:watch", t)
    ELSE c

initialize_part000(cfg) ==
  /\ CanRun
  /\ hostPhase = "loaded"
  /\ cfg # {} => sigintListeners < MaxListeners
  /\ LET c0 == Ctx(<<>>, promptVisible)
         c1 == createWatcher_part000(options, c0, cfg, CounterOrder[1])
         c2 == createWatcher_part000(options, c1, cfg, CounterOrder[2])
         c3 == IF cfg # {}
                 THEN (IF terminal THEN Emit(c2, "tjsdoc:system:watcher:initialized", cfg) ELSE c2)
                 ELSE log(options, c2, <<"nothing to watch">>)
     IN  /\ out' = c3.out
         /\ promptVisible' = c3.pv
         /\ watcherStartCount' = Count(c3.out, "watcherStartCount++")
  /\ bound' = TRUE
  /\ watchers' = [t \in Types |-> IF t \in cfg THEN "watching" ELSE watchers[t]]
  /\ sigintListeners' = IF cfg # {} THEN sigintListeners + 1 ELSE sigintListeners
  /\ readline' = IF cfg # {} /\ terminal THEN "open" ELSE readline
  /\ hostPhase' = "watching"
  /\ scheduled' = cfg
  /\ readySignalled' = {}
  /\ started' = 0
  /\ stopped' = 0
  /\ initialized' = Count(out', "tjsdoc:system:watcher:initialized")
  /\ last' = [op |-> "initialize_part000", arg |-> Arg("object", NoProps), threw |-> FALSE]
  /\ UNCHANGED <<options, terminal, promises, thenQueued, immediates, crashed, record,
                 delivered, updates, session, manualGlobs, watcherCloseFunction, manualGlobsAll, config, group, result,
                 onlyChanges, added, retain, held>>

\* const watcherStartData = { source: { globs: [], files: {} }, test: { globs: [], files: {} } };
\* a 'ready' handler replaces the entry of its group.
watcherStartData_part000(signalled) ==
  [t \in CounterGroups |-> IF t \in signalled THEN "watched" ELSE "empty"]

\* Mutant: every 'ready' handler reports the start.
startCountAny(count) == TRUE

\* if (watcherStartCount === 0)
startCountZero(count) == count = 0

\* The 'ready' handler of a chokidar watcher of part_000.  chokidar emits
\* 'ready' from process.nextTick, after initialize has returned.
ready_part000(t) ==
  /\ CanRun
  /\ t \in CounterGroups
  /\ watchers[t] = "watching"
  /\ watchers' = [watchers EXCEPT ![t] = "ready"]
  /\ readySignalled' = readySignalled \cup {t}
  /\ watcherStartCount' = watcherStartCount - 1
  /\ LET c0 == Ctx(<<>>, promptVisible)
         c1 == IF startCountZero(watcherStartCount')
                 THEN Emit(log(options, c0, <<"type 'help' for options">>),
                           "tjsdoc:system:watcher:started",
                           watcherStartData_part000(readySignalled'))
                 ELSE c0
     IN  /\ out' = c1.out
         /\ promptVisible' = c1.pv
         /\ started' = started + Count(c1.out, "tjsdoc:system:watcher:started")
  /\ last' = [op |-> "ready_part000", arg |-> Arg("string", NoProps), threw |-> FALSE]
  /\ UNCHANGED <<options, terminal, readline, bound, promises, thenQueued, sigintListeners,
                 immediates, crashed, hostPhase, scheduled, stopped, record, delivered,
                 updates, session, manualGlobs, watcherCloseFunction, manualGlobsAll, config, group, result, initialized,
                 onlyChanges, added, retain, held>>

\* What the handlers of part_000 leave alone.
unusedByCounter ==
  <<terminal, promises, thenQueued, record, delivered, updates, session, manualGlobs,
    manualGlobsAll, watcherCloseFunction, config, group, result, onlyChanges, added,
    retain, held>>

\* The 'add', 'change' and 'unlink' handlers that the 'ready' handler of a
\* watcher registers: the update carries the action, the type and the path.
fileCallback_part000(t, a) ==
  /\ CanRun
  /\ t \in CounterGroups
  /\ watchers[t] = "ready"
  /\ LET c0 == Ctx(<<>>, promptVisible)
         c1 == logVerbose(options, c0, <<a, t>>)
         c2 == triggerEvent(options, c1, "tjsdoc:system:watcher:update",
                            [action |-> a, type |-> t])
     IN  /\ out' = c2.out
         /\ promptVisible' = c2.pv
  /\ last' = [op |-> "file_part000", arg |-> Arg("string", [k \in {"action", "type"} |-> IF k = "action" THEN a ELSE t]), threw |-> FALSE]
  /\ UNCHANGED <<options, readline, bound, watchers, sigintListeners, immediates, crashed,
                 hostPhase, scheduled, readySignalled, started, stopped, initialized,
                 watcherStartCount>>
  /\ UNCHANGED unusedByCounter

\* Watcher.setOptions of part_000: typeof options !== 'object' throws, and so
\* does reading options.paused of null; each of paused, silent and verbose is
\* assigned if it is a boolean, and no event is triggered.
setOptionsThrows_part000(a) == TypeOfArg(a) # "object" \/ a.kind = "null"

assignOptions_part000(opts, props) ==
  [k \in DOMAIN opts |->
     CASE k = "trigger" ->
            IF "paused" \in DOMAIN props /\ TypeOf(props["paused"]) = "boolean"
              THEN ~ToBool(props["paused"]) ELSE opts[k]
       [] OTHER ->
            IF k \in DOMAIN props /\ TypeOf(props[k]) = "boolean"
              THEN ToBool(props[k]) ELSE opts[k]]

\* Bound by initialize to tjsdoc:system:watcher:options:set on the event
\* proxy: nothing runs once eventProxy.off() has removed the binding.
setOptions_part000(a) ==
  /\ CanCall
  /\ LET props == IF a.kind = "object" THEN a.props ELSE NoProps
         threw == bound /\ setOptionsThrows_part000(a)
     IN  /\ options' = IF bound /\ ~threw THEN assignOptions_part000(options, props) ELSE options
         /\ last' = [op |-> "setOptions_part000", arg |-> a, threw |-> threw]
  /\ out' = <<>>
  /\ UNCHANGED <<promptVisible, readline, bound, watchers, sigintListeners, immediates,
                 crashed, hostPhase, scheduled, readySignalled, started, stopped,
                 initialized, watcherStartCount>>
  /\ UNCHANGED unusedByCounter

\* The groups of part_000 are closed in this order, each one if it is set.
CloseOrder_part000 == <<"test", "source">>

\* Watcher.shutdownCallback of part_000.  The SIGINT listener was registered
\* as the function itself, so removeListener finds it; the readline has no
\* 'close' handler, so closing it schedules nothing.
shutdownCallback_part000(a, queue) ==
  IF shutdownThrows(a)
    THEN /\ last' = [op |-> "shutdown_part000", arg |-> a, threw |-> TRUE]
         /\ out' = <<>>
         /\ immediates' = queue
         /\ UNCHANGED <<promptVisible, readline, bound, watchers, stopped, hostPhase,
                        sigintListeners>>
    ELSE LET regenerate == regenerateFlag(a)
             c0 == Ctx(<<>>, promptVisible)
             c1 == logVerbose(options, c0, <<"shutdown requested", regenerate>>)
             c2 == Ctx(c1.out, FALSE)
             c3 == IF readline = "open" THEN Emit(c2, "readline:close", "") ELSE c2
             closes == SelectSeq(CloseOrder_part000, LAMBDA t : watchers[t] # "none")
             c4 == shutdownEmits(options, c3, closes, regenerate)
         IN  /\ out' = c4.out
             /\ promptVisible' = c4.pv
             /\ readline' = "none"
             /\ immediates' = queue
             /\ bound' = eventProxyOff(bound)
             /\ sigintListeners' = IF sigintListeners > 0 THEN sigintListeners - 1 ELSE 0
             /\ watchers' = [t \in Types |-> "none"]
             /\ stopped' = stopped + Count(c4.out, "tjsdoc:system:watcher:stopped")
             /\ hostPhase' = IF regenerate THEN "regenerating" ELSE "shutdown"
             /\ last' = [op |-> "shutdown_part000", arg |-> a, threw |-> FALSE]

\* eventbus.trigger('tjsdoc:system:watcher:shutdown', a)
triggerShutdown_part000(a, queue) ==
  IF bound
    THEN shutdownCallback_part000(a, queue)
    ELSE /\ last' = [op |-> "shutdown_part000", arg |-> a, threw |-> FALSE]
         /\ out' = <<>>
         /\ immediates' = queue
         /\ UNCHANGED <<promptVisible, readline, bound, watchers, stopped, hostPhase,
                        sigintListeners>>

\* A shutdown request triggered on the eventbus by the host or a plugin.
hostShutdown_part000(a) ==
  /\ CanCall
  /\ triggerShutdown_part000(a, immediates)
  /\ UNCHANGED <<options, crashed, scheduled, readySignalled, started, initialized,
                 watcherStartCount>>
  /\ UNCHANGED unusedByCounter

\* The tasks of setImmediate: the shutdown requests of `exit` and `regen`.
runImmediate_part000 ==
  /\ CanRun
  /\ immediates # <<>>
  /\ Head(immediates) \in {"shutdown", "regen"}
  /\ triggerShutdown_part000(IF Head(immediates) = "regen"
                               THEN Arg("object", [k \in {"regenerate"} |-> "true"])
                               ELSE Arg("undefined", NoProps),
                             Tail(immediates))
  /\ UNCHANGED <<options, crashed, scheduled, readySignalled, started, initialized,
                 watcherStartCount>>
  /\ UNCHANGED unusedByCounter

\* process.on('SIGINT', this.processInterruptCallback): the function is
\* registered without bind, so `this` is the process when the signal
\* arrives and reading this.eventbus.trigger is a TypeError thrown from the
\* listener; whether the process survives the uncaught exception is up to
\* the handlers the host has installed.
interrupt_part000 ==
  /\ CanRun
  /\ sigintListeners > 0
  /\ crashed' \in BOOLEAN
  /\ out' = <<>>
  /\ last' = [op |-> "interrupt_part000", arg |-> Arg("undefined", NoProps), threw |-> TRUE]
  /\ UNCHANGED <<options, promptVisible, readline, bound, watchers, sigintListeners,
                 immediates, hostPhase, scheduled, readySignalled, started, stopped,
                 initialized, watcherStartCount>>
  /\ UNCHANGED unusedByCounter

\* The switches of the 'line' handler of part_000: `pause` sets this.paused.
Toggles_part000 == {"pause", "silent", "verbose"}

Lines_part000 ==
  {<<n>> : n \in {"exit", "globs", "help", "regen", "status", "watching", "", "bogus"}
             \cup Toggles_part000}
    \cup {<<n, x>> : n \in Toggles_part000, x \in {"on", "off", "maybe"}}

\* typeof lineSplit[1] === 'string' and it is `on` or `off`
toggleMalformed_part000(tokens) == ~(Len(tokens) >= 2 /\ tokens[2] \in {"on", "off"})

toggle_part000(opts, tokens) ==
  IF toggleMalformed_part000(tokens) THEN opts
  ELSE IF tokens[1] = "pause" THEN [opts EXCEPT !["trigger"] = (tokens[2] = "off")]
  ELSE [opts EXCEPT ![tokens[1]] = (tokens[2] = "on")]

\* The 'line' handler of part_000.
line_part000(tokens) ==
  /\ CanRun
  /\ readline = "open"
  /\ tokens[1] \in {"exit", "regen"} => Len(immediates) < MaxQueue
  /\ LET c0 == Ctx(<<>>, FALSE)
         name == tokens[1]
         new == IF name \in Toggles_part000 THEN toggle_part000(options, tokens) ELSE options
         raw(c, datas) == EmitAll(c, "log:info:raw", datas)
         c1 == CASE name \in {"exit", "regen"} -> c0
                 [] name = "globs" ->
                      showPrompt(new, raw(c0, SelectSeq(CounterOrder, LAMBDA t : t \in scheduled)))
                 [] name = "help" ->
                      showPrompt(new, raw(c0, <<"options:", "exit", "globs", "help", "pause", "regen",
                                               "silent", "status", "verbose", "watching">>))
                 [] name \in Toggles_part000 ->
                      showPrompt(new, IF toggleMalformed_part000(tokens)
                                        THEN raw(c0, <<"command malformed">>)
                                        ELSE c0)
                 [] name = "status" ->
                      showPrompt(new, raw(c0, <<"status:", <<"paused", ~options["trigger"]>>,
                                               <<"silent", options["silent"]>>,
                                               <<"verbose", options["verbose"]>>, "">>))
                 [] name = "watching" ->
                      showPrompt(new, raw(c0, SelectSeq(CounterOrder, LAMBDA t : watchers[t] # "none")))
                 [] name = "" -> showPrompt(new, c0)
                 [] OTHER -> showPrompt(new, raw(c0, <<"unknown command">>))
     IN  /\ out' = c1.out
         /\ promptVisible' = c1.pv
         /\ options' = new
         /\ immediates' = CASE name = "exit" -> Append(immediates, "shutdown")
                            [] name = "regen" -> Append(immediates, "regen")
                            [] OTHER -> immediates
         /\ last' = [op |-> "line_part000", arg |-> Arg("string", [i \in {"0", "1"} |->
                        IF i = "0" THEN tokens[1] ELSE IF Len(tokens) >= 2 THEN tokens[2] ELSE ""]),
                     threw |-> FALSE]
  /\ UNCHANGED <<readline, bound, watchers, sigintListeners, crashed, hostPhase, scheduled,
                 readySignalled, started, stopped, initialized, watcherStartCount>>
  /\ UNCHANGED unusedByCounter

----------------------------------------------------------------------------
(* The gaze-based variant, src/src/plugin.js 422-657: onComplete keeps the *)
(* watchers, the readline interface and watcherCloseFunction in its        *)
(* closure.  watchers[t] is "watching" while gaze has not called back, so  *)
(* the closure variable is still undefined, "ready" once it holds the      *)
(* watcher, "closing" after close() until gaze has emitted 'end', "closed" *)
(* afterwards; a closed watcher stays in its variable.  gaze emits 'end'   *)
(* from a timer and removes its listeners after it, so a further close()   *)
(* runs no handler.                                                        *)

GazeGroups == {"source", "test"}

\* if (sourceWatcher), if (testWatcher): the variable holds a watcher.
assigned(w, t) == w[t] \in {"ready", "closing", "closed"}

\* watcher.close()
gazeClose(w, t) == [w EXCEPT ![t] = IF @ = "ready" THEN "closing" ELSE @]

\* The process runs until the task of process.exit(0) has run, and no other
\* callback runs between the 'line' events of one chunk.
CanRun_gaze == CanRun /\ hostPhase # "exited" /\ readline # "closed"

onComplete_gaze(cfg) ==
  /\ CanRun_gaze
  /\ hostPhase = "loaded"
  /\ cfg # {} => sigintListeners < MaxListeners
  /\ LET step(q, t) == IF t \in cfg
                         THEN Append(q, Ev("log:info:time", <<"watching globs", t>>))
                         ELSE q
         q1 == step(<<>>, "source")
         q2 == step(q1, "test")
     IN  out' = IF cfg # {}
                  THEN Append(q2, Ev("tjsdoc:system:watcher:started", "undefined"))
                  ELSE Append(q2, Ev("log:info:time", <<"nothing to watch">>))
  /\ readline' = "open"
  /\ promptVisible' = FALSE
  /\ watcherCloseFunction' = FALSE
  /\ watchers' = [t \in Types |-> IF t \in cfg THEN "watching" ELSE "none"]
  /\ sigintListeners' = IF cfg # {} THEN sigintListeners + 1 ELSE sigintListeners
  /\ bound' = (cfg # {})
  /\ hostPhase' = "watching"
  /\ scheduled' = cfg
  /\ readySignalled' = {}
  /\ started' = Count(out', "tjsdoc:system:watcher:started")
  /\ stopped' = 0
  /\ last' = [op |-> "onComplete_gaze", arg |-> Arg("object", NoProps), threw |-> FALSE]
  /\ UNCHANGED <<options, terminal, promises, thenQueued, immediates, crashed, record,
                 delivered, updates, session, manualGlobs, watcherStartCount, manualGlobsAll, config,
                 group, result, initialized, onlyChanges, added, retain, held>>

\* The callback of gaze(globs, options, (err, watcher) => ...).
created_gaze(t) ==
  /\ CanRun_gaze
  /\ t \in GazeGroups
  /\ watchers[t] = "watching"
  /\ watchers' = [watchers EXCEPT ![t] = "ready"]
  /\ readySignalled' = readySignalled \cup {t}
  /\ out' = <<Ev("log:info:time", <<"watching files", t>>)>>
  /\ last' = [op |-> "created_gaze", arg |-> Arg("string", NoProps), threw |-> FALSE]
  /\ UNCHANGED <<options, terminal, promptVisible, readline, bound, promises, thenQueued,
                 sigintListeners, immediates, crashed, hostPhase, scheduled, started,
                 stopped, record, delivered, updates, session, manualGlobs,
                 watcherStartCount, watcherCloseFunction, manualGlobsAll, config, group, result,
                 initialized, onlyChanges, added, retain, held>>

\* The events of gaze and the events the handlers trigger for them.
GazeEvents ==
  [changed |-> "tjsdoc:system:watcher:file:changed",
   added |-> "tjsdoc:system:watcher:file:added",
   deleted |-> "tjsdoc:system:watcher:file:deleted"]

GazeActions == DOMAIN GazeEvents

\* The 'changed', 'added' and 'deleted' handlers of a watcher: an empty raw
\* line if the prompt is visible (promptVisible stays as it is), the log
\* line and the event, which names the type 'source' for either watcher.
file_gaze(t, a) ==
  /\ CanRun_gaze
  /\ t \in GazeGroups
  /\ watchers[t] = "ready"
  /\ out' = (IF promptVisible THEN <<Ev("log:info:raw", "")>> ELSE <<>>)
              \o <<Ev("log:info:time", <<a, "file">>),
                   Ev(GazeEvents[a], [type |-> "source"])>>
  /\ last' = [op |-> "file_gaze", arg |-> Arg("string", NoProps), threw |-> FALSE]
  /\ UNCHANGED <<options, terminal, promptVisible, readline, bound, watchers, promises,
                 thenQueued, sigintListeners, immediates, crashed, hostPhase, scheduled,
                 readySignalled, started, stopped, record, delivered, updates, session,
                 manualGlobs, watcherStartCount, watcherCloseFunction, manualGlobsAll, config, group,
                 result, initialized, onlyChanges, added, retain, held>>

\* if (sourceWatcher) { sourceWatcher.close(); } if (testWatcher) { testWatcher.close(); }
GazeCloseOrder == <<"source", "test">>

\* The close() calls of the order that are made, each entered in `out`.
closeCalls_gaze(w, order) ==
  LET held_ == SelectSeq(order, LAMBDA t : assigned(w, t))
  IN  [i \in 1..Len(held_) |-> Ev("gaze:close", held_[i])]

closeBoth_gaze(w) == gazeClose(gazeClose(w, GazeCloseOrder[1]), GazeCloseOrder[2])

\* process.on('SIGINT', () => ...): the warning, rl.close(), close() of the
\* watchers that are set, and the task of process.exit(0).
interrupt_gaze ==
  /\ CanRun_gaze
  /\ sigintListeners > 0
  /\ Len(immediates) < MaxQueue
  /\ out' = <<Ev("log:warn:time", "Received SIGINT. Shutting down."), Ev("readline:close", "")>>
              \o closeCalls_gaze(watchers, GazeCloseOrder)
  /\ readline' = "none"
  /\ watchers' = closeBoth_gaze(watchers)
  /\ immediates' = Append(immediates, "process.exit")
  /\ last' = [op |-> "interrupt_gaze", arg |-> Arg("undefined", NoProps), threw |-> FALSE]
  /\ UNCHANGED <<options, terminal, promptVisible, bound, promises, thenQueued,
                 sigintListeners, crashed, hostPhase, scheduled, readySignalled, started,
                 stopped, record, delivered, updates, session, manualGlobs,
                 watcherStartCount, watcherCloseFunction, manualGlobsAll, config, group, result,
                 initialized, onlyChanges, added, retain, held>>

GazeLines == {"exit", "globs", "regen", "regenerate", "watching", "what"}

\* readline emits 'line' for every line of the chunk it has read, one after
\* the other in the same tick, also for the lines that follow one whose
\* handler has closed the interface.  Only `exit` closes it in the handler:
\* readline is "closed" while lines of that chunk are left and "none" after
\* the last of them.
chunkLeft(rl, l, more) ==
  IF l = "exit" \/ rl = "closed"
    THEN (IF more THEN "closed" ELSE "none")
    ELSE rl

\* rl.prompt() on an interface that is closed writes the prompt or throws
\* ERR_USE_AFTER_CLOSE, as the version of node has it; the exception leaves
\* the 'line' handler uncaught and ends the chunk, and whether the process
\* survives it is up to the handlers the host has installed.
promptThrows(rl, l, throws) ==
  rl = "closed" /\ l \notin {"exit", "globs", "regen", "regenerate", "watching"} /\ throws

\* rl.on('line', ...): the switch over line.trim().  `exit` closes the
\* readline and the watchers, reports the stop and schedules process.exit;
\* `globs` and `watching` log and show no prompt; `regen` and `regenerate`
\* schedule the shutdown for regeneration; any other line shows the prompt.
line_gaze(l) ==
  /\ CanRun
  /\ hostPhase # "exited"
  /\ readline \in {"open", "closed"}
  /\ bound
  /\ l \in {"exit", "regen", "regenerate"} => Len(immediates) < MaxQueue
  /\ promptVisible' = (l \notin {"exit", "globs", "regen", "regenerate", "watching"})
  /\ \E more \in BOOLEAN, throws \in BOOLEAN :
       /\ throws => promptThrows(readline, l, throws)
       /\ readline' = IF throws THEN "none" ELSE chunkLeft(readline, l, more)
       /\ crashed' \in (IF throws THEN BOOLEAN ELSE {FALSE})
       /\ out' = CASE l = "exit" ->
                        <<Ev("readline:close", "")>> \o closeCalls_gaze(watchers, GazeCloseOrder)
                          \o <<Ev("tjsdoc:system:watcher:stopped", "undefined")>>
                   [] l = "globs" ->
                        LET cfg == SelectSeq(GazeCloseOrder, LAMBDA t : t \in scheduled)
                        IN  [i \in 1..Len(cfg) |-> Ev("log:info:time", <<"watching globs", cfg[i]>>)]
                   [] l = "watching" ->
                        LET set == SelectSeq(GazeCloseOrder, LAMBDA t : assigned(watchers, t))
                        IN  [i \in 1..Len(set) |-> Ev("log:info:time", <<"watching files", set[i]>>)]
                   [] l \in {"regen", "regenerate"} -> <<>>
                   [] OTHER -> IF throws THEN <<>> ELSE <<Ev("readline:prompt", "")>>
       /\ last' = [op |-> "line_gaze", arg |-> Arg("string", [i \in {"0"} |-> l]), threw |-> throws]
  /\ immediates' = CASE l = "exit" -> Append(immediates, "process.exit")
                     [] l \in {"regen", "regenerate"} -> Append(immediates, "regen_gaze")
                     [] OTHER -> immediates
  /\ watchers' = IF l = "exit" THEN closeBoth_gaze(watchers) ELSE watchers
  /\ stopped' = IF l = "exit" THEN stopped + 1 ELSE stopped
  /\ sigintListeners' = IF l = "exit" THEN 0 ELSE sigintListeners
  /\ UNCHANGED <<options, terminal, bound, promises, thenQueued, hostPhase,
                 scheduled, readySignalled, started, record, delivered, updates, session,
                 manualGlobs, watcherStartCount, watcherCloseFunction, manualGlobsAll, config,
                 group, result, initialized, onlyChanges, added, retain, held>>

\* if (testWatcher) { testWatcher.close(); } else if (sourceWatcher) { sourceWatcher.close(); }
regenOrder(w) ==
  IF assigned(w, "test") THEN <<"test">>
  ELSE IF assigned(w, "source") THEN <<"source">>
  ELSE <<>>

regenCloses(w) ==
  IF regenOrder(w) = <<>> THEN w ELSE gazeClose(w, regenOrder(w)[1])

\* The tasks of setImmediate: the one of `regen`, closeFunction, and
\* process.exit(0), after which nothing runs.
runImmediate_gaze ==
  /\ CanRun_gaze
  /\ immediates # <<>>
  /\ Head(immediates) \in {"regen_gaze", "closeFunction", "process.exit"}
  /\ immediates' = Tail(immediates)
  /\ CASE Head(immediates) = "regen_gaze" ->
            /\ watcherCloseFunction' = TRUE
            /\ sigintListeners' = 0
            /\ watchers' = regenCloses(watchers)
            /\ readline' = "none"
            /\ out' = closeCalls_gaze(watchers, regenOrder(watchers)) \o <<Ev("readline:close", "")>>
            /\ UNCHANGED <<stopped, hostPhase>>
       [] Head(immediates) = "closeFunction" ->
            /\ out' = <<Ev("tjsdoc:system:watcher:stopped", "undefined"),
                        Ev("tjsdoc:system:regenerate:all:docs", "undefined")>>
            /\ stopped' = stopped + 1
            /\ hostPhase' = "regenerating"
            /\ UNCHANGED <<watcherCloseFunction, sigintListeners, watchers, readline>>
       [] OTHER ->
            /\ out' = <<>>
            /\ hostPhase' = "exited"
            /\ UNCHANGED <<watcherCloseFunction, sigintListeners, watchers, readline, stopped>>
  /\ last' = [op |-> "immediate_gaze", arg |-> Arg("undefined", NoProps), threw |-> FALSE]
  /\ UNCHANGED <<options, terminal, promptVisible, bound, promises, thenQueued, crashed,
                 scheduled, readySignalled, started, record, delivered, updates, session,
                 manualGlobs, watcherStartCount, manualGlobsAll, config, group, result, initialized,
                 onlyChanges, added, retain, held>>

\* The 'end' handlers: the one of the source watcher schedules
\* watcherCloseFunction, the one of the test watcher closes the source watcher.
end_gaze(t) ==
  /\ CanRun_gaze
  /\ t \in GazeGroups
  /\ watchers[t] = "closing"
  \* the timer of gaze runs after the setImmediate tasks queued before it
  /\ immediates = <<>>
  /\ LET w == [watchers EXCEPT ![t] = "closed"]
     IN  IF t = "source"
           THEN /\ watchers' = w
                /\ watcherCloseFunction' = FALSE
                /\ immediates' = IF watcherCloseFunction
                                   THEN Append(immediates, "closeFunction")
                                   ELSE immediates
                /\ out' = <<>>
           ELSE /\ watchers' = IF watcherCloseFunction /\ assigned(w, "source")
                                 THEN gazeClose(w, "source")
                                 ELSE w
                /\ out' = IF watcherCloseFunction
                            THEN closeCalls_gaze(w, <<"source">>)
                            ELSE <<>>
                /\ UNCHANGED <<watcherCloseFunction, immediates>>
  /\ last' = [op |-> "end_gaze", arg |-> Arg("string", NoProps), threw |-> FALSE]
  /\ UNCHANGED <<options, terminal, promptVisible, readline, bound, promises, thenQueued,
                 sigintListeners, crashed, hostPhase, scheduled, readySignalled, started,
                 stopped, record, delivered, updates, session, manualGlobs,
                 watcherStartCount, manualGlobsAll, config, group, result, initialized, onlyChanges,
                 added, retain, held>>

----------------------------------------------------------------------------
(* The ignore functions handed to chokidar: Watcher.ignoredMatch,          *)
(* ignoredSource and ignoredTest of src/src/plugin.js, and those of the    *)
(* variant kept in src/unnamed/part_000.                                   *)

\* The regular expressions of config._includes and config._excludes.
RegExps == {"^src/", "^test/", "a.js$"}

\* path.match(reg)
match(path, reg) ==
  CASE reg = "^src/" -> path \in {"src/a.js", "src/b.js"}
    [] reg = "^test/" -> path \in {"test/a.js"}
    [] reg = "a.js$" -> path \in {"src/a.js", "test/a.js"}

\* What chokidar passes as stats and what fs.lstatSync finds: the stats of
\* a file, the stats of a directory, or no stats and a failing lstatSync.
Stats == {"file", "directory", "missing"}

\* for (const reg of config._includes) { if (path.match(reg)) { match = true; break; } }
RECURSIVE includesLoop(_, _)
includesLoop(path, regs) ==
  IF regs = <<>> THEN FALSE
  ELSE IF match(path, Head(regs)) THEN TRUE
  ELSE includesLoop(path, Tail(regs))

\* for (const reg of config._excludes) { if (path.match(reg)) { ignored = true; } }
RECURSIVE excludesLoop(_, _, _)
excludesLoop(path, regs, ignored) ==
  IF regs = <<>> THEN ignored
  ELSE excludesLoop(path, Tail(regs), IF match(path, Head(regs)) THEN TRUE ELSE ignored)

\* Mutant: a path that matches an include is never ignored.
ignoredMatchIncludeWins(path, scope) == ~includesLoop(path, scope.includes)

\* Watcher.ignoredMatch(path, config) of src/src/plugin.js
ignoredMatch(path, scope) ==
  excludesLoop(path, scope.excludes, ~includesLoop(path, scope.includes))

\* Watcher.ignoredMatch(path, config) of src/unnamed/part_000: the second
\* loop runs over this.config._excludes whatever config was passed.
ignoredMatch_part000(this_config, path, scope) ==
  excludesLoop(path, this_config.excludes, ~includesLoop(path, scope.includes))

\* The body shared by ignoredSource and ignoredTest, given the result of
\* this.ignoredMatch: a failing lstatSync and a file take it, anything else
\* (a directory) is not ignored.
ignoredStats(stats, matched) ==
  LET ignored0 == FALSE
      ignored1 == IF stats = "missing" THEN matched ELSE ignored0
      ignored2 == IF stats = "file" THEN matched ELSE ignored1
  IN  ignored2

ignoredSource(this_config, path, stats) ==
  ignoredStats(stats, ignoredMatch(path, this_config))

ignoredTest(this_config, path, stats) ==
  ignoredStats(stats, ignoredMatch(path, this_config.test))

ignoredSource_part000(this_config, path, stats) ==
  ignoredStats(stats, ignoredMatch_part000(this_config, path, this_config))

ignoredTest_part000(this_config, path, stats) ==
  ignoredStats(stats, ignoredMatch_part000(this_config, path, this_config.test))

\* The scope a caller of ignoredMatch passes.
ScopeNames == {"main", "test"}

ScopeOf(cfg, name) == IF name = "main" THEN cfg ELSE cfg.test

\* A call of one of the ignore functions once initialize has created the
\* watchers that use them (this.config is set by then in both variants):
\* op names the function, and ignored is what it returned.
ignoreCall(op, p, st, sc, ignored) ==
  /\ CanRun
  /\ bound
  /\ result' = [NoResult EXCEPT !.op = op, !.path = p, !.stats = st, !.scope = sc,
                                !.ignored = ignored]
  /\ out' = <<>>
  /\ last' = [op |-> op, arg |-> Arg("string", NoProps), threw |-> FALSE]
  /\ UNCHANGED <<options, terminal, promptVisible, readline, bound, watchers, promises,
                 thenQueued, sigintListeners, immediates, crashed, hostPhase, scheduled,
                 readySignalled, started, stopped, record, delivered, updates,
                 session, manualGlobs, watcherStartCount, watcherCloseFunction, manualGlobsAll, config, group, initialized, onlyChanges, added, retain, held>>

ignoredMatchCall(p, sc) ==
  ignoreCall("ignoredMatch", p, "", sc, ignoredMatch(p, ScopeOf(config, sc)))

ignoredSourceCall(p, st) ==
  ignoreCall("ignoredSource", p, st, "main", ignoredSource(config, p, st))

ignoredTestCall(p, st) ==
  ignoreCall("ignoredTest", p, st, "test", ignoredTest(config, p, st))

ignoredSourceCall_part000(p, st) ==
  ignoreCall("ignoredSource_part000", p, st, "main", ignoredSource_part000(config, p, st))

ignoredTestCall_part000(p, st) ==
  ignoreCall("ignoredTest_part000", p, st, "test", ignoredTest_part000(config, p, st))

\* The arrays of k regular expressions.
RegExpArrays(k) == [1..k -> RegExps]

\* The scopes and the configs that hold at most MaxPatterns regular
\* expressions in all.
Scopes ==
  UNION {{Scope(inc, exc) : inc \in RegExpArrays(l[1]), exc \in RegExpArrays(l[2])} :
           l \in {m \in (0..MaxPatterns) \X (0..MaxPatterns) : m[1] + m[2] <= MaxPatterns}}

Configs ==
  UNION {{Config(main, test) : main \in {s \in Scopes : Len(s.includes) + Len(s.excludes) = l[1]},
                               test \in {s \in Scopes : Len(s.includes) + Len(s.excludes) = l[2]}} :
           l \in {m \in (0..MaxPatterns) \X (0..MaxPatterns) : m[1] + m[2] <= MaxPatterns}}

----------------------------------------------------------------------------
(* The arguments a caller may pass to setOptions. *)

ArgKeys == OptionKeys \cup {"bogus"}

ObjectArgs ==
  {Arg("object", NoProps)}
    \cup {Arg("object", [k \in {k1} |-> v1]) : k1 \in ArgKeys, v1 \in JSValues}
    \cup {Arg("object", [k \in {k1, k2} |-> IF k = k1 THEN v1 ELSE v2]) :
            k1 \in {"trigger"}, k2 \in ArgKeys \ {"trigger"}, v1 \in JSValues, v2 \in JSValues}

NonObjectArgs == {Arg(kind, NoProps) : kind \in {"null", "string", "number", "boolean"}}

SetOptionsArgs == ObjectArgs \cup NonObjectArgs \cup {Arg("undefined", NoProps)}

\* Start-up: the groups are scheduled, become ready or fail, and the host
\* may request a shutdown at any time.
Next ==
  \/ \E in \in InitializeInputs(SUBSET Types, manualGlobsAll) : initialize(in[1], in[2])
  \/ \E t \in Types : ready(t)
  \/ \E t \in Types : error(t)
  \/ PromiseAllThen
  \/ \E a \in ShutdownArgs : hostShutdown(a)
  \/ runImmediate

Spec == Init /\ [][Next]_vars

\* Shutdown: the console commands that end a session, interrupts, the
\* setImmediate tasks they schedule and the requests of the host.
LifecycleLines == {<<"exit">>, <<"regen">>}

NextShutdown ==
  \/ \E in \in InitializeInputs(SUBSET Types, manualGlobsAll) : initialize(in[1], in[2])
  \/ \E t \in Types : ready(t)
  \/ PromiseAllThen
  \/ \E a \in ShutdownArgs : hostShutdown(a)
  \/ \E tokens \in LifecycleLines : line(tokens)
  \/ interrupt
  \/ runImmediate

SpecShutdown == Init /\ [][NextShutdown]_vars

\* File callbacks while the trigger option is switched on and off; the
\* callbacks and the update events are recorded.
UpdateConfigs == {{"source"}, {"source", "test"}}

TriggerArgs == {Arg("object", [k \in {"trigger"} |-> v]) : v \in {"true", "false"}}

TriggerLines == {<<"trigger", "on">>, <<"trigger", "off">>}

InitUpdates == Constructed(TRUE)

NextUpdates ==
  \/ \E cfg \in UpdateConfigs : initialize("object", cfg)
  \/ \E t \in Types : ready(t)
  \/ PromiseAllThen
  \/ \E t \in Types, a \in FileActions : fileCallback(t, a)
  \/ \E a \in TriggerArgs : setOptions(a)
  \/ \E tokens \in TriggerLines : line(tokens)
  \/ hostShutdown(Arg("undefined", NoProps))

SpecUpdates == InitUpdates /\ [][NextUpdates]_vars

\* Logging: the handlers that call log and logVerbose, under every option
\* state, the messages a host sends to the terminal, and the empty line,
\* which shows the prompt.
NextLog ==
  \/ \E cfg \in UpdateConfigs : initialize("object", cfg)
  \/ \E t \in Types : ready(t)
  \/ PromiseAllThen
  \/ \E t \in Types, a \in FileActions : fileCallback(t, a)
  \/ \E name \in TerminalLogs : terminalLog(name)
  \/ line(<<"">>)
  \/ hostShutdown(Arg("undefined", NoProps))

SpecLog == Init /\ [][NextLog]_vars

\* The option state: setOptions with every argument and the toggle commands.
OptionLines == {tokens \in Lines : tokens[1] \in OptionalCommands}

NextOptions ==
  \/ initialize("undefined", {"source"})
  \/ ready("source")
  \/ PromiseAllThen
  \/ \E a \in SetOptionsArgs : setOptions(a)
  \/ \E tokens \in OptionLines : line(tokens)

SpecOptions == Init /\ [][NextOptions]_vars

\* The console: every line of the built-in commands, unknown and empty
\* lines, and the tasks that `exit` and `regen` schedule.
NextConsole ==
  \/ initialize("undefined", {"source"})
  \/ ready("source")
  \/ PromiseAllThen
  \/ \E tokens \in Lines : line(tokens)
  \/ runImmediate
  \/ \E name \in TerminalLogs : terminalLog(name)

SpecConsole == Init /\ [][NextConsole]_vars

\* The toggles: the lines of the optional commands, built-in and registered
\* by a caller with or without a hook, and the file callbacks in between.
ToggleLines ==
  {tokens \in Lines : tokens[1] \in OptionalCommands}
    \cup {<<n>> : n \in AddedNames} \cup {<<"extra", x>> : x \in {"on", "off", "maybe"}}

NextToggles ==
  \/ initialize("undefined", {"source"})
  \/ ready("source")
  \/ PromiseAllThen
  \/ \E cmd \in AddableCommands : addCommand(cmd)
  \/ \E tokens \in ToggleLines : line(tokens)
  \/ \E a \in FileActions : fileCallback("source", a)

SpecToggles == Init /\ [][NextToggles]_vars

\* The option objects handed out: the callers and listeners keep them and
\* write to them while the options are set and toggled.
SnapshotArgs == {Arg("object", [k \in {"trigger"} |-> v]) : v \in {"true", "false"}}

SnapshotLines == {<<"custom">>, <<"verbose", "on">>, <<"verbose", "off">>}

\* The properties a holder writes.
WrittenKeys == {"trigger", "verbose"}

InitSnapshots == ConstructedWith(FALSE, DefaultOnlyChanges, TRUE)

NextSnapshots ==
  \/ initialize("undefined", {"source"})
  \/ ready("source")
  \/ PromiseAllThen
  \/ addCommand([name |-> "custom", type |-> "plain", exec |-> TRUE, state |-> "undefined"])
  \/ \E a \in SnapshotArgs : setOptions(a)
  \/ \E tokens \in SnapshotLines : line(tokens)
  \/ fileCallback("source", "file:change")
  \/ getOptionsCall
  \/ \E i \in 1..MaxHeld, k \in WrittenKeys : mutate(i, k)

SpecSnapshots == InitSnapshots /\ [][NextSnapshots]_vars

\* Watch groups built with onlyChanges: a caller of the WatchGroup constructor
\* may pass true for a group.
OnlyChangesChoices ==
  {[t \in Types |-> t \in on] : on \in {{}, {"source"}, {"source", "test"}}}

InitGroup == \E oc \in OnlyChangesChoices : ConstructedWith(TRUE, oc, FALSE)

NextGroup ==
  \/ \E cfg \in UpdateConfigs : initialize("object", cfg)
  \/ \E t \in Types : ready(t)
  \/ PromiseAllThen
  \/ \E t \in Types, a \in FileActions : fileCallback(t, a)
  \/ \E a \in TriggerArgs : setOptions(a)
  \/ hostShutdown(Arg("undefined", NoProps))

SpecGroup == InitGroup /\ [][NextGroup]_vars

\* A watch group on its own: a caller initializes it, reads the index and
\* closes it in any order while chokidar fills the index.
InitWatchGroup ==
  /\ ConstructedWith(FALSE, DefaultOnlyChanges, FALSE)
  /\ options = DefaultOptions
  /\ terminal = DefaultTerminal

NextWatchGroup ==
  \/ WatchGroup_initialize
  \/ \E p \in Paths : watched(p)
  \/ \E p \in Paths : unwatched(p)
  \/ WatchGroup_getWatched
  \/ WatchGroup_close

SpecWatchGroup == InitWatchGroup /\ [][NextWatchGroup]_vars

\* The ignore functions: the host passes a config to initialize, then
\* chokidar and other callers apply the functions to paths.
IgnoreTargets == {"source", "test"}

InitIgnore ==
  /\ ConstructedFor(FALSE, DefaultOnlyChanges, FALSE, Configs)
  /\ options = DefaultOptions
  /\ terminal = DefaultTerminal

NextIgnore ==
  \/ initialize("undefined", IgnoreTargets)
  \/ \E p \in Paths, sc \in ScopeNames : ignoredMatchCall(p, sc)
  \/ \E p \in Paths, st \in Stats : ignoredSourceCall(p, st)
  \/ \E p \in Paths, st \in Stats : ignoredTestCall(p, st)
  \/ \E p \in Paths, st \in Stats : ignoredSourceCall_part000(p, st)
  \/ \E p \in Paths, st \in Stats : ignoredTestCall_part000(p, st)

SpecIgnore == InitIgnore /\ [][NextIgnore]_vars

\* Regeneration: the host asks for a shutdown with or without regenerate
\* and initializes the same Watcher again after a regeneration; the
\* sessions and the file callbacks are recorded.
RegenerateArgs == {Arg("undefined", NoProps), Arg("object", [k \in {"regenerate"} |-> "true"])}

NextRegenerate ==
  \/ \E cfg \in UpdateConfigs : initialize("object", cfg)
  \/ \E t \in Types : ready(t)
  \/ PromiseAllThen
  \/ \E t \in Types, a \in FileActions : fileCallback(t, a)
  \/ \E a \in RegenerateArgs : hostShutdown(a)
  \/ runImmediate

SpecRegenerate == InitUpdates /\ [][NextRegenerate]_vars

\* The counter-based variant: the host initializes the Watcher with any
\* of the two groups and chokidar reports them ready in any order.
CounterConfigs == SUBSET CounterGroups

\* What a caller may pass to setOptions of part_000.
SetOptionsArgs_part000 ==
  {Arg("undefined", NoProps), Arg("null", NoProps), Arg("string", NoProps)}
    \cup {Arg("object", [k \in {n} |-> v]) : n \in {"paused", "silent", "verbose"},
                                             v \in {"true", "false", "yes"}}

NextCounter ==
  \/ \E cfg \in CounterConfigs : initialize_part000(cfg)
  \/ \E t \in CounterGroups : ready_part000(t)
  \/ \E t \in CounterGroups, a \in FileActions : fileCallback_part000(t, a)
  \/ \E a \in SetOptionsArgs_part000 : setOptions_part000(a)
  \/ \E a \in ShutdownArgs : hostShutdown_part000(a)
  \/ \E l \in Lines_part000 : line_part000(l)
  \/ runImmediate_part000
  \/ interrupt_part000

SpecCounter == Init /\ [][NextCounter]_vars

\* The gaze-based variant: the host completes with any of the two groups,
\* gaze creates the watchers, the operator types lines, and the tasks and
\* the 'end' events run.  gaze calls back and emits 'end' in the end, a
\* setImmediate task runs in the end, and so do the lines left of a chunk.
GazeConfigs == SUBSET GazeGroups

NextGaze ==
  \/ \E cfg \in GazeConfigs : onComplete_gaze(cfg)
  \/ \E t \in GazeGroups : created_gaze(t)
  \/ \E l \in GazeLines : line_gaze(l)
  \/ \E t \in GazeGroups, a \in GazeActions : file_gaze(t, a)
  \/ interrupt_gaze
  \/ runImmediate_gaze
  \/ \E t \in GazeGroups : end_gaze(t)

SpecGaze ==
  /\ Init
  /\ [][NextGaze]_vars
  /\ WF_vars(\E t \in GazeGroups : created_gaze(t))
  /\ WF_vars(runImmediate_gaze)
  /\ WF_vars(\E t \in GazeGroups : end_gaze(t))
  /\ WF_vars(readline = "closed" /\ \E l \in GazeLines : line_gaze(l))

\* The keys of the option state: callers register commands and set options
\* under known, registered and unknown keys, and the operator toggles the
\* registered option.
KeyArgs ==
  {Arg("object", [k \in {k1} |-> v1]) : k1 \in {"verbose", "extra", "bogus"}, v1 \in JSValues}
    \cup {Arg("object", [k \in {"extra", "bogus"} |-> v]) : v \in JSValues}
    \cup {Arg("undefined", NoProps), Arg("string", NoProps)}

KeyLines == {<<"extra", x>> : x \in {"on", "off", "maybe"}} \cup {<<"verbose", "on">>}

NextKeys ==
  \/ initialize("undefined", {"source"})
  \/ \E cmd \in AddableCommands : addCommand(cmd)
  \/ \E a \in KeyArgs : setOptions(a)
  \/ \E tokens \in KeyLines : line(tokens)

SpecKeys == Init /\ [][NextKeys]_vars

\* The trigger option and one group: file callbacks of the source group
\* while setOptions and the `trigger` command switch the option off and on;
\* the callbacks and the update events are recorded.
InitTrigger ==
  /\ Constructed(TRUE)
  /\ options["silent"] = DefaultOptions["silent"]
  /\ terminal = DefaultTerminal

NextTrigger ==
  \/ initialize("undefined", {"source"})
  \/ ready("source")
  \/ PromiseAllThen
  \/ \E a \in FileActions : fileCallback("source", a)
  \/ \E a \in TriggerArgs : setOptions(a)
  \/ \E tokens \in TriggerLines : line(tokens)

SpecTrigger == InitTrigger /\ [][NextTrigger]_vars

\* The manual group: the publisher lists the manual sections, the host
\* initializes the Watcher with manual files only, and chokidar reports
\* changes of manual files.
ManualConfigs == {{"manual"}}

InitManual ==
  /\ ConstructedOver(FALSE, DefaultOnlyChanges, FALSE, {NoConfig}, ManualSections)
  /\ options["silent"] = DefaultOptions["silent"]
  /\ terminal = DefaultTerminal

NextManual ==
  \/ \E cfg \in ManualConfigs : initialize("object", cfg)
  \/ \E t \in Types : ready(t)
  \/ PromiseAllThen
  \/ \E a \in FileActions, p \in CallbackPaths : manualCallback(a, p)

SpecManual == InitManual /\ [][NextManual]_vars

----------------------------------------------------------------------------
(* Claims *)

EvStarted == "tjsdoc:system:watcher:started"

EvStopped == "tjsdoc:system:watcher:stopped"

EvShutdown == "tjsdoc:system:shutdown"

EvRegenerate == "tjsdoc:system:regenerate:all:docs"

EvUpdate == "tjsdoc:system:watcher:update"

EvOptionsChanged == "tjsdoc:system:watcher:options:changed"

\* The positions of out that hold an entry with the given name.
Positions(q, name) == {i \in 1..Len(q) : q[i].name = name}

\* C1: with N >= 1 scheduled groups, watcher:started is emitted at most once
\* per initialization, only when every scheduled group has signalled
\* readiness, and it has been emitted once every group's promise is
\* fulfilled and the continuation has run, whatever the order of readiness.
C1_StartedOnceAfterAllReady ==
  scheduled # {} =>
    /\ started <= 1
    /\ Count(out, EvStarted) <= 1
    /\ (started = 1 \/ Count(out, EvStarted) = 1) => readySignalled = scheduled
    /\ ((\A t \in scheduled : promises[t] = "fulfilled") /\ ~thenQueued) => started = 1

\* C1 witness: all four groups were scheduled and the started event was just emitted.
C1_Witness ==
  /\ scheduled = Types
  /\ last.op = "then"
  /\ Count(out, EvStarted) = 1
  /\ readySignalled = Types

\* C2: with no group scheduled, neither watcher:started nor watcher:stopped
\* is ever emitted, also after a shutdown request.
C2_NothingScheduledNoEvents ==
  (hostPhase # "loaded" /\ scheduled = {}) =>
    /\ started = 0
    /\ stopped = 0
    /\ Count(out, EvStarted) = 0
    /\ Count(out, EvStopped) = 0

\* A shutdown request was delivered in this step and the callback ran to its end.
ShutdownProcessed == bound /\ last'.op = "shutdown" /\ ~last'.threw

\* C3: a processed shutdown request with N >= 1 active groups emits exactly
\* one watcher:stopped, after a close of every active group, each closed once.
C3_StoppedOnceAfterAllClosed ==
  [][(ShutdownProcessed /\ \E t \in Types : watchers[t] # "none") =>
       /\ Count(out', EvStopped) = 1
       /\ \A t \in Types : watchers[t] # "none" =>
            /\ Cardinality({i \in Positions(out', "chokidar:close") : out'[i].data = t}) = 1
            /\ \A i \in Positions(out', "chokidar:close") : \A j \in Positions(out', EvStopped) :
                 out'[i].data = t => i < j
       /\ \A t \in Types : watchers'[t] = "none"]_vars

\* C3 witness: a shutdown closed four active groups and emitted stopped.
C3_Witness ==
  /\ last.op = "shutdown"
  /\ Count(out, "chokidar:close") = 4
  /\ Count(out, EvStopped) = 1

\* C4: once a shutdown was processed, a further shutdown request before the
\* next initialize emits no stopped, regenerate or shutdown event and closes
\* no group.
C4_SecondShutdownIgnored ==
  [][(stopped >= 1 /\ last'.op = "shutdown") =>
       /\ Count(out', EvStopped) = 0
       /\ Count(out', EvRegenerate) = 0
       /\ Count(out', EvShutdown) = 0
       /\ Count(out', "chokidar:close") = 0
       /\ watchers' = watchers
       /\ stopped' = stopped]_vars

\* C4 witness: a shutdown request arrived after the shutdown and did nothing.
C4_Witness ==
  /\ stopped = 1
  /\ last.op = "shutdown"
  /\ ~last.threw
  /\ out = <<>>

\* The lifecycle events of a handler, in order.
Terminal(q) ==
  SelectSeq(Names(q), LAMBDA n : n \in {EvStopped, EvShutdown, EvRegenerate})

\* The request carried regenerate: true.
CarriedRegenerate(a) ==
  /\ a.kind = "object"
  /\ "regenerate" \in DOMAIN a.props
  /\ a.props["regenerate"] = "true"

\* C5: every processed shutdown request emits watcher:stopped and then
\* exactly one terminal event: regenerate:all:docs if the request carried
\* regenerate: true, otherwise shutdown.
C5_OneTerminalEventAfterStopped ==
  [][ShutdownProcessed =>
       Terminal(out') = <<EvStopped, IF CarriedRegenerate(last'.arg) THEN EvRegenerate ELSE EvShutdown>>]_vars

\* C5 witness: a request with regenerate: true ended with the regenerate event.
C5_Witness ==
  /\ last.op = "shutdown"
  /\ CarriedRegenerate(last.arg)
  /\ Terminal(out) = <<EvStopped, EvRegenerate>>

\* The recorded callbacks of one group that arrived while trigger was true.
Forwarded(t) ==
  SelectSeq(delivered, LAMBDA d : d.type = t /\ d.trigger)

\* The recorded update events of one group.
UpdatesOf(t) == SelectSeq(updates, LAMBDA u : u.type = t)

\* C6: while trigger is true every add, change and unlink callback of a ready
\* group produces exactly one update event, and the updates of a group are
\* in the order of its callbacks.
C6_UpdatesFollowCallbacks ==
  /\ \A t \in Types :
       /\ Len(UpdatesOf(t)) = Len(Forwarded(t))
       /\ \A i \in 1..Len(Forwarded(t)) : UpdatesOf(t)[i].action = Forwarded(t)[i].action
  /\ (last.op = "file" /\ options["trigger"]) =>
       /\ Count(out, EvUpdate) = 1
       /\ \A i \in Positions(out, EvUpdate) :
            /\ out[i].data.action = last.arg.props["action"]
            /\ out[i].data.type = last.arg.props["type"]

\* C6 witness: a file of the source group was created, modified and deleted
\* with trigger on, and three updates add, change, unlink were emitted.
C6_Witness ==
  /\ Len(delivered) = 3
  /\ \A i \in 1..3 : delivered[i].type = "source" /\ delivered[i].trigger
  /\ [i \in 1..3 |-> delivered[i].action] = <<"file:add", "file:change", "file:unlink">>
  /\ [i \in 1..Len(updates) |-> updates[i].action] = <<"file:add", "file:change", "file:unlink">>

\* C7: while trigger is false no update event is emitted for any callback.
C7_NoUpdateWhileTriggerOff ==
  /\ (last.op = "file" /\ ~options["trigger"]) => Count(out, EvUpdate) = 0
  /\ Len(updates) <= Len(SelectSeq(delivered, LAMBDA d : d.trigger))

\* C7 witness: trigger was on for a first callback, was switched off, and a
\* later callback produced no update.
C7_Witness ==
  /\ Len(delivered) = 2
  /\ delivered[1].trigger
  /\ ~delivered[2].trigger
  /\ last.op = "file"
  /\ Len(updates) = 1
  /\ out = <<>>

\* What the options are expected to be after setOptions(a).
Expected(opts, a) ==
  [k \in DOMAIN opts |->
     IF a.kind = "object" /\ k \in DOMAIN a.props /\ a.props[k] \in {"true", "false"}
       THEN a.props[k] = "true"
       ELSE opts[k]]

\* C8: after setOptions the result of getOptions has every boolean given for
\* a known key and every other option as it was before the call.
C8_SetThenGetRoundTrip ==
  [][(last'.op = "setOptions" /\ ~last'.threw) =>
       getOptions(options') = Expected(options, last'.arg)]_vars

\* C8 witness: setOptions({trigger: false, verbose: true}) was applied.
C8_Witness ==
  /\ last.op = "setOptions"
  /\ last.arg = Arg("object", [k \in {"trigger", "verbose"} |-> IF k = "trigger" THEN "false" ELSE "true"])
  /\ options["verbose"]
  /\ ~options["trigger"]

\* The call assigns at least one option.
Assigns(a) ==
  /\ a.kind = "object"
  /\ \E k \in DOMAIN a.props : k \in OptionKeys /\ a.props[k] \in {"true", "false"}

\* C9: a setOptions call that assigns at least one option emits exactly one
\* options:changed event, whose payload is the option state after the call.
C9_OneChangedEventWithFullState ==
  (last.op = "setOptions" /\ Assigns(last.arg)) =>
    /\ Len(out) = 1
    /\ out[1].name = EvOptionsChanged
    /\ out[1].data = getOptions(options)

\* C9 witness: a call assigned two options and one event was emitted.
C9_Witness ==
  /\ last.op = "setOptions"
  /\ Assigns(last.arg)
  /\ Cardinality(DOMAIN last.arg.props) = 2
  /\ Count(out, EvOptionsChanged) = 1

\* C10: an argument of setOptions that is not an object (a string, a number,
\* a boolean or null) makes the call throw, and then the options are
\* unchanged and no options:changed event is emitted.
C10_MalformedArgumentThrows ==
  [][(last'.op = "setOptions" /\ last'.arg.kind \in {"null", "string", "number", "boolean"}) =>
       /\ last'.threw
       /\ options' = options
       /\ Count(out', EvOptionsChanged) = 0]_vars

\* C11: a write to an object that was handed out (by getOptions, as the
\* payload of options:changed, as the options of an update or of a command's
\* exec) never changes the options of the Watcher, and no other step changes
\* what a holder reads through an object it was handed earlier.
C11_ReadersHoldSnapshots ==
  [][/\ last'.op = "mutate" => options' = options
     /\ last'.op # "mutate" =>
          \A i \in 1..Len(held) : Deref(held'[i], options') = Deref(held[i], options)]_vars

\* C11 witness: a caller kept the result of getOptions and a listener the
\* options of an update; the listener wrote to its object, which now
\* differs from the options of the Watcher.
C11_Witness ==
  /\ Len(held) = 2
  /\ held[1].from = "getOptions"
  /\ held[2].from = EvUpdate
  /\ last.op = "mutate"
  /\ held[2].val # options
  /\ held[1].val # options

\* C12: once the promise of a scheduled group is rejected (its watcher
\* reported an error before readiness), watcher:started is not emitted for
\* that initialization, whichever groups report readiness afterwards.
C12_NoStartedAfterRejection ==
  (\E t \in scheduled : promises[t] = "rejected") =>
    /\ started = 0
    /\ Count(out, EvStarted) = 0
    /\ ~thenQueued

\* C12 witness: a group failed and every scheduled group, the failed one
\* included, has reported readiness since; nothing was started.
C12_Witness ==
  /\ Cardinality(scheduled) >= 2
  /\ \E t \in scheduled : promises[t] = "rejected"
  /\ readySignalled = scheduled
  /\ last.op = "ready"
  /\ started = 0
  /\ ~crashed

\* C13: the step in which the aggregate of an initialization is rejected
\* surfaces the failure to the host: an event is emitted or the process ends.
C13_FailureSurfaced ==
  [][(/\ last'.op = "error"
      /\ \A t \in scheduled : promises[t] # "rejected"
      /\ \E t \in scheduled : promises'[t] = "rejected") =>
       (crashed' \/ out' # <<>>)]_vars

\* C14: a processed shutdown request that finds a scheduled group not yet
\* ready closes every scheduled group once, leaves no group set, and emits
\* watcher:stopped followed by exactly one terminal event.
C14_ShutdownBeforeReadiness ==
  [][(ShutdownProcessed /\ \E t \in scheduled : watchers[t] = "watching") =>
       /\ \A t \in scheduled :
            Cardinality({i \in Positions(out', "chokidar:close") : out'[i].data = t}) = 1
       /\ \A t \in Types : watchers'[t] = "none"
       /\ Len(Terminal(out')) = 2
       /\ Terminal(out')[1] = EvStopped
       /\ Terminal(out')[2] \in {EvShutdown, EvRegenerate}]_vars

\* C14 witness: three groups were scheduled, one failed, not all became
\* ready, and a shutdown closed the three and emitted stopped.
C14_Witness ==
  /\ last.op = "shutdown"
  /\ Cardinality(scheduled) = 3
  /\ readySignalled # scheduled
  /\ \E t \in scheduled : promises[t] = "rejected"
  /\ Count(out, "chokidar:close") = 3
  /\ Count(out, EvStopped) = 1

\* C15: an interrupt emits no lifecycle event itself and schedules shutdown
\* requests without a payload, as the task of `exit` does; such a request
\* emits stopped then shutdown if the binding is there and nothing
\* otherwise; shutdownCallback completes at most once per initialization;
\* and the handler that runs after an interrupt does not end the process
\* with an uncaught exception.
C15_InterruptShutsDownOnce ==
  [][/\ last'.op = "interrupt" =>
          /\ Terminal(out') = <<>>
          /\ Len(immediates') > Len(immediates)
          /\ \A i \in 1..Len(immediates') :
               immediates'[i] = IF i <= Len(immediates) THEN immediates[i] ELSE "shutdown"
     /\ (last'.op = "immediate:exit" /\ ~last'.threw) =>
          /\ Terminal(out') = <<>>
          /\ immediates' = Append(Tail(immediates), "shutdown")
     /\ (last'.op = "shutdown" /\ last'.arg.kind = "undefined") =>
          Terminal(out') = IF bound THEN <<EvStopped, EvShutdown>> ELSE <<>>
     /\ stopped' <= 1
     /\ last.op = "interrupt" => ~crashed']_vars

\* C16: at most one SIGINT listener of the Watcher is attached at any time,
\* and none once a shutdown was processed.
C16_AtMostOneInterruptHandler ==
  /\ sigintListeners <= 1
  /\ stopped >= 1 => sigintListeners = 0

\* The line `X on` or `X off` for an optional command X.
Toggle(a, cmds) ==
  /\ a.props["1"] \in {"on", "off"}
  /\ command(cmds, a.props["0"]).type = "optional"

\* The options:changed events and the calls of the hook, in order.
ToggleEffects(q) ==
  SelectSeq(q, LAMBDA e : e.name \in {EvOptionsChanged, "origExec"})

\* C17: the line `X on` (`X off`) of an optional command X sets option X to
\* true (false) and no other option, then emits options:changed with the new
\* options, then calls the hook of the caller, if there is one, with the new
\* value; and with silent off and trigger on a file callback produces a
\* verbose log line exactly if verbose is on.
C17_ToggleSetsEmitsThenHooks ==
  [][/\ (last'.op = "line" /\ Toggle(last'.arg, added)) =>
          LET X == last'.arg.props["0"]
              v == last'.arg.props["1"] = "on"
              hook == command(added, X).exec
              ev == ToggleEffects(out')
          IN  /\ options' = [k \in DOMAIN options |-> IF k = X THEN v ELSE options[k]]
              /\ Names(ev) = IF hook THEN <<EvOptionsChanged, "origExec">> ELSE <<EvOptionsChanged>>
              /\ ev[1].data = options'
              /\ hook => ev[2].data = v
     /\ (last'.op = "file" /\ ~options'["silent"] /\ options'["trigger"]) =>
          Count(out', "log:info:time") = IF options'["verbose"] THEN 1 ELSE 0]_vars

\* C17 witness: `extra off` was entered for a command registered with a
\* hook; options:changed was emitted and then the hook called with false.
C17_Witness ==
  /\ last.op = "line"
  /\ last.arg.props["0"] = "extra"
  /\ last.arg.props["1"] = "off"
  /\ "extra" \in DOMAIN added
  /\ Names(ToggleEffects(out)) = <<EvOptionsChanged, "origExec">>
  /\ ~options["extra"]

\* C18: a line of an optional command whose second token is missing or is
\* not `on` or `off` is reported once; the options, the lifecycle state and
\* the pending tasks are unchanged, no options:changed is emitted, the hook
\* is not called, and the console still takes lines.
C18_MalformedToggleContained ==
  [][(/\ last'.op = "line"
      /\ command(added, last'.arg.props["0"]).type = "optional"
      /\ last'.arg.props["1"] \notin {"on", "off"}) =>
       /\ options' = options
       /\ ToggleEffects(out') = <<>>
       /\ Count(out', "log:info:raw") = 1
       /\ readline' = "open"
       /\ ~crashed'
       /\ <<bound', watchers', hostPhase', immediates', started', stopped'>>
            = <<bound, watchers, hostPhase, immediates, started, stopped>>]_vars

\* C18 witness: `extra maybe` was entered while extra was on and had a hook.
C18_Witness ==
  /\ last.op = "line"
  /\ last.threw
  /\ last.arg.props["0"] = "extra"
  /\ last.arg.props["1"] = "maybe"
  /\ "extra" \in DOMAIN added
  /\ added["extra"].exec
  /\ options["extra"]
  /\ Count(out, "log:info:raw") = 1

\* C19: after the dispatch of a line to a command of the Watcher, to no
\* command or of an empty line, the prompt is shown exactly if silent is
\* off; an unknown command is reported and an empty line reports nothing.
C19_PromptAfterEveryLine ==
  [][(/\ last'.op = "line"
      /\ ~(last'.arg.props["0"] \in DOMAIN added /\ command(added, last'.arg.props["0"]).type = "plain")) =>
       /\ Count(out', "readline:prompt") = IF options'["silent"] THEN 0 ELSE 1
       /\ promptVisible' = ~options'["silent"]
       /\ last'.arg.props["0"] = "" => Count(out', "log:info:raw") = 0
       /\ (last'.arg.props["0"] # "" /\ command(added, last'.arg.props["0"]).type = "none") =>
            Count(out', "log:info:raw") = 1]_vars

\* C20: a group built with onlyChanges = true emits no update with action
\* file:add or file:unlink.
C20_OnlyChangesOnlyChange ==
  /\ \A i \in 1..Len(updates) :
       onlyChanges[updates[i].type] => updates[i].action = "file:change"
  /\ \A i \in Positions(out, EvUpdate) :
       onlyChanges[out[i].data.type] => out[i].data.action = "file:change"

\* C20 witness: the source group was built with onlyChanges = true and the
\* test group was not; source emitted a change and test an add.
C20_Witness ==
  /\ onlyChanges["source"]
  /\ ~onlyChanges["test"]
  /\ Len(updates) = 2
  /\ updates[1] = [action |-> "file:change", type |-> "source"]
  /\ updates[2] = [action |-> "file:add", type |-> "test"]

\* C21: getWatched returns the empty index {} whenever the group was never
\* initialized or was closed, and the current index of the underlying
\* watcher otherwise.
C21_GetWatchedEmptyUnlessOpen ==
  result.op = "getWatched" =>
    result.watched = IF group.phase \in {"new", "closed"} THEN {} ELSE group.files

\* C21 witness: the group was closed while its index held files, and
\* getWatched returned {}.
C21_Witness ==
  /\ result.op = "getWatched"
  /\ group.phase = "closed"
  /\ group.atClose # {}
  /\ result.watched = {}

\* C22: after close, getWatched returns the index as it was just before the
\* close.
C22_SnapshotAfterClose ==
  (result.op = "getWatched" /\ group.phase = "closed") =>
    result.watched = group.atClose

\* C23: close completes without an error and leaves the group closed, also
\* when it is called a second time or before initialize.
C23_CloseAlwaysSafe ==
  last.op = "WatchGroup.close" =>
    /\ ~last.threw
    /\ group.phase = "closed"

\* The path matches some regular expression of the array.
MatchesSome(path, regs) == \E i \in DOMAIN regs : match(path, regs[i])

\* C24: ignoredMatch(path, scope) is true exactly if the path matches no
\* include of the scope or matches some exclude of the scope; ignoredSource
\* returns the same for a file of the main scope.
C24_IgnoredIffNotIncludedOrExcluded ==
  /\ result.op = "ignoredMatch" =>
        LET scope == ScopeOf(config, result.scope)
        IN  result.ignored = (~MatchesSome(result.path, scope.includes)
                                \/ MatchesSome(result.path, scope.excludes))
  /\ (result.op = "ignoredSource" /\ result.stats # "directory") =>
        result.ignored = (~MatchesSome(result.path, config.includes)
                            \/ MatchesSome(result.path, config.excludes))

\* C24 witness: ignoredMatch was applied to a path that matches both an
\* include and an exclude of the scope, and the path is ignored.
C24_Witness ==
  /\ result.op = "ignoredMatch"
  /\ MatchesSome(result.path, ScopeOf(config, result.scope).includes)
  /\ MatchesSome(result.path, ScopeOf(config, result.scope).excludes)
  /\ result.ignored

\* C25: what ignoredTest returns does not change when the main scope is
\* replaced by any other, and what ignoredSource returns does not change
\* when the test scope is replaced by any other, in both variants.
C25_ScopesNeverConflated ==
  /\ result.op = "ignoredTest" =>
        \A main \in Scopes :
          result.ignored = ignoredTest(Config(main, config.test), result.path, result.stats)
  /\ result.op = "ignoredSource" =>
        \A test \in Scopes :
          result.ignored = ignoredSource(Config(config, test), result.path, result.stats)
  /\ result.op = "ignoredTest_part000" =>
        \A main \in Scopes :
          result.ignored = ignoredTest_part000(Config(main, config.test), result.path, result.stats)
  /\ result.op = "ignoredSource_part000" =>
        \A test \in Scopes :
          result.ignored = ignoredSource_part000(Config(config, test), result.path, result.stats)

\* C26: the payload of watcher:started has a key for exactly the group
\* types that were scheduled.
C26_StartedKeysAreScheduled ==
  scheduled # {} =>
    \A i \in Positions(out, EvStarted) : DOMAIN out[i].data = scheduled

\* C26 as amended: the payload of watcher:started always has the four keys
\* source, test, index and manual; the entry of a scheduled group holds its
\* globs and files, the entry of any other type is { globs: [], files: {} }.
C26_StartedHasFourKeys ==
  \A i \in Positions(out, EvStarted) :
    /\ DOMAIN out[i].data = {"source", "test", "index", "manual"}
    /\ \A t \in DOMAIN out[i].data :
         out[i].data[t] = IF t \in scheduled THEN "watched" ELSE "empty"

\* C26 witness: only the source group was scheduled and the payload of
\* started holds its entry and an empty entry for test.
C26_Witness ==
  /\ scheduled = {"source"}
  /\ last.op = "then"
  /\ \E i \in Positions(out, EvStarted) :
       /\ out[i].data["source"] = "watched"
       /\ out[i].data["test"] = "empty"

\* C27: when watcher:started is emitted for an initialization with at least
\* one group, watcher:initialized was emitted earlier in that
\* initialization, whatever the plugin options are.
C27_InitializedBeforeStarted ==
  (scheduled # {} /\ started >= 1) => initialized >= 1

\* C28: a session that the host initialized after a regeneration works as
\* the first one, for every number of regenerations: it emits watcher:started
\* exactly once when its groups are ready, forwards add, change and unlink
\* as update events, stops when and only when the host asks it to, and a
\* request without regenerate ends with tjsdoc:system:shutdown.
C28_OperationalAfterRegenerate ==
  session.regenerations >= 1 =>
    /\ started <= 1
    /\ (scheduled # {} /\ ~thenQueued /\ \A t \in scheduled : promises[t] = "fulfilled") =>
         started = 1
    /\ (last.op = "file" /\ options["trigger"]) => Count(out, EvUpdate) = 1
    /\ stopped <= 1
    /\ session.asked => stopped = 1
    /\ stopped = 1 => session.asked
    /\ (last.op = "shutdown" /\ Count(out, EvStopped) = 1) =>
         Terminal(out) =
           <<EvStopped, IF CarriedRegenerate(last.arg) THEN EvRegenerate ELSE EvShutdown>>

EvLogInfoTime == "log:info:time"

\* The number of messages a handler logs through Watcher.log and through
\* Watcher.logVerbose, given how many it passes to each.
LogLines(plain, verbose) ==
  (IF ~options["silent"] /\ options["trigger"] THEN plain ELSE 0)
    + (IF options["verbose"] /\ ~options["silent"] /\ options["trigger"] THEN verbose ELSE 0)

\* C29: a message passed to log is emitted as log:info:time if and only if
\* silent is false and trigger is true, and one passed to logVerbose if and
\* only if moreover verbose is true: no log:info:time is emitted while
\* silent is true or trigger is false; initialize logs one line per group
\* and the continuation one line; every add, change and unlink callback
\* logs one verbose line and a processed shutdown two; a message sent to
\* the terminal through the bound log or logVerbose is one line of its kind.
C29_LogGatedByOptions ==
  /\ Count(out, EvLogInfoTime) >= 1 => (~options["silent"] /\ options["trigger"])
  /\ (last.op = "initialize" /\ ~last.threw) =>
       Count(out, EvLogInfoTime) =
         LogLines(IF scheduled = {} THEN 1 ELSE Cardinality(scheduled), 0)
  /\ last.op = "then" => Count(out, EvLogInfoTime) = LogLines(1, 0)
  /\ (last.op = "tjsdoc:system:watcher:terminal:log" /\ bound) =>
       Count(out, EvLogInfoTime) = LogLines(1, 0)
  /\ (last.op = "tjsdoc:system:watcher:terminal:log:verbose" /\ bound) =>
       Count(out, EvLogInfoTime) = LogLines(0, 1)
  /\ last.op = "file" => Count(out, EvLogInfoTime) = LogLines(0, 1)
  /\ (last.op = "shutdown" /\ Count(out, EvStopped) = 1) =>
       Count(out, EvLogInfoTime) = LogLines(0, 2)

\* C29 witness: with verbose on a shutdown was processed and logged its two
\* verbose lines.
C29_Witness ==
  /\ options["verbose"]
  /\ last.op = "shutdown"
  /\ Count(out, EvStopped) = 1
  /\ Count(out, EvLogInfoTime) = 2

\* The log events of the eventbus.
LogEvents == {"log:info:time", "log:info:raw", "log:warn:time"}

\* C30: while silent is true the Watcher emits no log event of any kind,
\* whatever the handler: a file callback, a console line, an interrupt or a
\* shutdown.
C30_SilentLogsNothing ==
  options["silent"] => \A i \in 1..Len(out) : out[i].name \notin LogEvents

\* The raw path f of a section names the file that chokidar reports as p.
SameFile(f, p) == SelectSeq(f, LAMBDA seg : seg \notin {".", ""}) = p

\* The sections whose file list contains the path.
Listing(sections, p) ==
  {k \in 1..Len(sections) :
     /\ sections[k].isArray
     /\ \E j \in 1..Len(sections[k].files) : SameFile(sections[k].files[j], p)}

\* C31: every update of the manual group carries the callback's path and a
\* section: a section that lists the path, or the string "unknown" when
\* none does; the callback never throws and, with trigger on, always emits
\* its update.
C31_SectionOfManualUpdate ==
  last.op = "manual" =>
    LET ups == SelectSeq(out, LAMBDA e : e.name = EvUpdate)
        listing == Listing(manualGlobs, result.path)
    IN  /\ ~last.threw
        /\ options["trigger"] => Len(ups) = 1
        /\ \A i \in 1..Len(ups) :
             /\ ups[i].data.path = result.path
             /\ IF listing = {}
                  THEN ups[i].data.section = <<"string", "unknown">>
                  ELSE ups[i].data.section \in {<<"string", manualGlobs[k].key>> : k \in listing}

\* C32 as claimed: a setOptions call that leaves every option at its value
\* emits no options:changed event.
C32_NoEventWithoutChange ==
  [][(last'.op = "setOptions" /\ options' = options) =>
       Count(out', EvOptionsChanged) = 0]_vars

\* C32: setOptions emits options:changed exactly when the call assigns an
\* option, that is when a key of the argument is an option and its value a
\* boolean, whether or not the value differs from the current one; a call
\* that assigns nothing emits nothing and leaves the options as they were.
C32_ChangedIffAssigned ==
  [][last'.op = "setOptions" =>
       /\ Count(out', EvOptionsChanged) = (IF Assigns(last'.arg) THEN 1 ELSE 0)
       /\ ~Assigns(last'.arg) => (out' = <<>> /\ options' = options)]_vars

\* A call with an unknown key or a non-boolean value emitted nothing.
C32_Witness ==
  /\ last.op = "setOptions"
  /\ last.arg.kind = "object"
  /\ DOMAIN last.arg.props = {"trigger", "bogus"}
  /\ ~Assigns(last.arg)
  /\ out = <<>>

EvCountUp == "watcherStartCount++"

EvWatch == "chokidar:watch"

\* C33 as claimed: initialize counts every configured group before it
\* creates the watcher of any group.
C33_CountedBeforeAnyWatch ==
  last.op = "initialize_part000" =>
    \A i \in Positions(out, EvCountUp), j \in Positions(out, EvWatch) : i < j

\* C33: initialize counts each configured group before it creates the
\* watcher of that group and has counted all of them when it returns, so
\* after every handler (the option, line, file, shutdown and signal handlers
\* included) the counter is the number of configured groups that are not
\* ready; watcher:started is emitted once, by the 'ready' handler of
\* the last group, with the start data of every configured group.
C33_StartedOnceWhenAllReady ==
  /\ last.op = "initialize_part000" =>
       /\ Count(out, EvCountUp) = Cardinality(scheduled)
       /\ \A j \in Positions(out, EvWatch) :
            \E i \in Positions(out, EvCountUp) : i < j /\ out[i].data = out[j].data
  /\ watcherStartCount = Cardinality(scheduled \ readySignalled)
  /\ started = (IF scheduled # {} /\ readySignalled = scheduled THEN 1 ELSE 0)
  /\ Count(out, EvStarted) =
       (IF last.op = "ready_part000" /\ readySignalled = scheduled THEN 1 ELSE 0)
  /\ \A i \in Positions(out, EvStarted) :
       \A t \in scheduled : out[i].data[t] = "watched"

\* Both groups were configured and the second 'ready' emitted watcher:started.
C33_Witness ==
  /\ last.op = "ready_part000"
  /\ scheduled = CounterGroups
  /\ watcherStartCount = 0
  /\ started = 1
  /\ Count(out, EvStarted) = 1

\* The operator or a signal ends the process: the task of process.exit is
\* scheduled or has run, or an uncaught exception has ended the process.
Leaving ==
  \/ hostPhase = "exited"
  \/ crashed
  \/ \E i \in 1..Len(immediates) : immediates[i] = "process.exit"

\* C34: in the gaze-based variant a `regen` line is followed in the end by
\* watcher:stopped and then regenerate:all:docs, whichever watchers are
\* configured and whether or not gaze has created them, unless the process
\* is ended by `exit` or a signal first; and the two are emitted exactly
\* once: regenerate:all:docs once, by a handler that emits watcher:stopped
\* before it, and watcher:stopped that one time only.
C34_RegenEventuallyRegenerates ==
  /\ (\E i \in 1..Len(immediates) : immediates[i] = "regen_gaze")
       ~> ((stopped = 1 /\ hostPhase = "regenerating") \/ Leaving)
  /\ [][Count(out', EvRegenerate) > 0 =>
          /\ hostPhase # "regenerating"
          /\ out' = <<Ev(EvStopped, "undefined"), Ev(EvRegenerate, "undefined")>>
          /\ stopped' = 1]_vars

\* C35: a file callback emits watcher:update only after watcher:started of
\* the same initialization was emitted; a group that is ready does not
\* forward callbacks while another group is still initializing.
C35_NoUpdateBeforeStarted ==
  (last.op = "file" /\ Count(out, EvUpdate) > 0) => started > 0

EvClose == "chokidar:close"

\* C36: the handler that emits watcher:stopped has closed every group that
\* was set, each once and before the event, and leaves no group set; as long
\* as watcher:stopped has been emitted since the last initialize no group is
\* set and no watcher:update is emitted.
C36_NoUpdateAfterStopped ==
  [][/\ Count(out', EvStopped) > 0 =>
          /\ {out'[i].data : i \in Positions(out', EvClose)} = {t \in Types : watchers[t] # "none"}
          /\ Count(out', EvClose) = Cardinality({t \in Types : watchers[t] # "none"})
          /\ \A i \in Positions(out', EvClose), j \in Positions(out', EvStopped) : i < j
     /\ stopped' > 0 =>
          /\ \A t \in Types : watchers'[t] = "none"
          /\ Count(out', EvUpdate) = 0]_vars

\* A session that forwarded updates was stopped and its two groups closed.
C36_Witness ==
  /\ Count(out, EvStopped) = 1
  /\ Count(out, EvClose) = 2
  /\ Len(updates) > 0
  /\ \A t \in Types : watchers[t] = "none"

\* The shutdown requests among the pending setImmediate tasks.
Requests(q) == Cardinality({i \in 1..Len(q) : q[i] = "shutdown"})

\* C37: the handler that processes a shutdown request (it emits
\* watcher:stopped) schedules no further shutdown request: closing the
\* readline interface leaves no request behind for the next session.
C37_ShutdownSchedulesNoShutdown ==
  [][Count(out', EvStopped) > 0 => Requests(immediates') <= Requests(immediates)]_vars

\* C38: a callback that arrives while trigger is false is dropped: the
\* update events emitted so far are as many as the callbacks that arrived
\* while trigger was true, and the handler that switches trigger back on
\* emits no update event.
C38_DroppedNotBuffered ==
  [][/\ Len(updates') = Len(SelectSeq(delivered', LAMBDA d : d.trigger))
     /\ (options'["trigger"] /\ ~options["trigger"]) =>
          /\ Count(out', EvUpdate) = 0
          /\ updates' = updates]_vars

\* A callback arrived while trigger was off, trigger was switched on again
\* by setOptions, and the callback was not made up for.
C38_Witness ==
  /\ Len(delivered) = 2
  /\ delivered[1].trigger
  /\ ~delivered[2].trigger
  /\ options["trigger"]
  /\ last.op = "setOptions"
  /\ Len(updates) = 1
  /\ Count(out, EvUpdate) = 0
  /\ Count(out, EvOptionsChanged) = 1

\* The names under which an optional command is registered.
OptionalNames == {n \in DOMAIN added : added[n].type = "optional"}

\* C39: every option is a boolean and the keys of the option state are
\* silent, trigger, verbose and the names of the registered optional
\* commands; setOptions adds no key and changes only the options that the
\* argument gives a boolean for; registering an optional command adds its
\* name with command.state, or false if that is no boolean, unless the name
\* is an option already, and then the options stay as they are.
C39_OptionsAreBooleanFlags ==
  /\ [](/\ \A k \in DOMAIN options : options[k] \in BOOLEAN
        /\ DOMAIN options = OptionKeys \cup OptionalNames)
  /\ [][/\ last'.op = "setOptions" =>
             /\ DOMAIN options' = DOMAIN options
             /\ \A k \in DOMAIN options :
                  IF last'.arg.kind = "object" /\ k \in DOMAIN last'.arg.props
                       /\ last'.arg.props[k] \in {"true", "false"}
                    THEN options'[k] = (last'.arg.props[k] = "true")
                    ELSE options'[k] = options[k]
        /\ (last'.op = "addCommand" /\ last'.arg.props["type"] = "optional") =>
             LET name == last'.arg.props["name"]
             IN  IF name \in DOMAIN options
                   THEN options' = options
                   ELSE /\ DOMAIN options' = DOMAIN options \cup {name}
                        /\ options'[name] = (last'.arg.props["state"] = "true")
                        /\ \A k \in DOMAIN options : options'[k] = options[k]]_vars

\* The optional command `extra` is registered and setOptions was called with
\* a boolean for it and a value under an unknown key.
C39_Witness ==
  /\ last.op = "setOptions"
  /\ last.arg.kind = "object"
  /\ DOMAIN last.arg.props = {"extra", "bogus"}
  /\ last.arg.props["extra"] = "true"
  /\ DOMAIN options = OptionKeys \cup {"extra"}
  /\ options["extra"]

====
